---- MODULE Spec2Model ----
(***************************************************************************)
(* Model of the RSVP / continuous-scroll reader of src/app/page.tsx: the   *)
(* tokenizer, the display windower, the step timer of Home, the animation  *)
(* frame loop of ContinuousRsvpRenderer and the React state they live in.  *)
(*                                                                         *)
(* A text is a sequence of one-character strings; a token is such a        *)
(* sequence too, and a token list is a sequence of tokens.                 *)
(*                                                                         *)
(* One action is one browser task: the event handler (or timer / frame     *)
(* callback), the render React does for the state it set, and the effect   *)
(* cleanups and effects of that render, in the order page.tsx declares     *)
(* them.                                                                   *)
(***************************************************************************)
EXTENDS Integers, Sequences, FiniteSets, TLC

\* null, and what is not null: a record with its fields and isNull false.
NULL == [isNull |-> TRUE]
\* A timestamp of a frame: only its being set is kept (the time between two
\* frames is an input of the frame).
SomeTimestamp == [isNull |-> FALSE]

Max(a, b) == IF a >= b THEN a ELSE b
clamp(value, min, max) == IF (IF value >= min THEN value ELSE min) <= max
                          THEN (IF value >= min THEN value ELSE min) ELSE max
Min(a, b) == IF a <= b THEN a ELSE b

(***************************************************************************)
(* Characters                                                              *)
(***************************************************************************)
\* JavaScript's \s, restricted to the characters the texts below use.
IsSpace(c) == c \in {" ", "\n"}
\* The class [.!?] of the sentence splitter.
IsTerminator(c) == c \in {".", "!", "?"}
\* The classes of endsWithPausePunctuation.
IsPauseMark(c) == c \in {".", ",", "!", "?", ";", ":"}
IsCloser(c) == c \in {"\"", "'", ")", "]"}

RECURSIVE TrimLeft(_)
TrimLeft(s) ==
    IF s # <<>> /\ IsSpace(Head(s)) THEN TrimLeft(Tail(s)) ELSE s

RECURSIVE TrimRight(_)
TrimRight(s) ==
    IF s # <<>> /\ IsSpace(s[Len(s)]) THEN TrimRight(SubSeq(s, 1, Len(s) - 1)) ELSE s

\* String.prototype.trim
Trim(s) == TrimRight(TrimLeft(s))

\* Array.prototype.join on a list of tokens
RECURSIVE Join(_, _)
Join(toks, sep) ==
    IF toks = <<>> THEN <<>>
    ELSE IF Len(toks) = 1 THEN toks[1]
    ELSE toks[1] \o sep \o Join(Tail(toks), sep)

\* Array.prototype.filter(Boolean) on a list of tokens: drops the empty ones
RECURSIVE FilterNonEmpty(_)
FilterNonEmpty(toks) ==
    IF toks = <<>> THEN <<>>
    ELSE IF Head(toks) = <<>> THEN FilterNonEmpty(Tail(toks))
    ELSE <<Head(toks)>> \o FilterNonEmpty(Tail(toks))

\* The joiner of a unit: "" for char, " " for every other unit.
Joiner(unit) == IF unit = "char" THEN <<>> ELSE <<" ">>

(***************************************************************************)
(* tokenizeText                                                            *)
(***************************************************************************)
\* text.split(/\s+/): the pieces between maximal whitespace runs (cur is the
\* piece being read, inWs says the previous character was whitespace).
RECURSIVE SplitWs(_, _, _)
SplitWs(s, cur, inWs) ==
    LET spaces == {i \in 1..Len(s) : IsSpace(s[i])}
    IN  IF spaces = {} THEN <<cur \o s>>
        ELSE LET i == CHOOSE k \in spaces : \A j \in spaces : k <= j
                 rest == SubSeq(s, i + 1, Len(s))
             IN  IF i = 1 /\ inWs THEN SplitWs(rest, cur, TRUE)
                 ELSE <<cur \o SubSeq(s, 1, i - 1)>> \o SplitWs(rest, <<>>, TRUE)

\* A split on single whitespace characters, without the trim.
WordTokensUntrimmed(t) == SplitWs(t, <<>>, FALSE)

\* text.trim().split(/\s+/).filter(Boolean)
WordTokens(t) == FilterNonEmpty(SplitWs(Trim(t), <<>>, FALSE))

\* text.match(/[^.!?]+[.!?]?/g): a match is a maximal run of one or more
\* non-terminators and at most one terminator after it; a terminator where a
\* match would have to start is skipped.
RECURSIVE MatchSentences(_, _)
MatchSentences(s, cur) ==
    LET terminators == {i \in 1..Len(s) : IsTerminator(s[i])}
    IN  IF terminators = {}
        THEN (IF cur \o s = <<>> THEN <<>> ELSE <<cur \o s>>)
        ELSE LET i == CHOOSE k \in terminators : \A j \in terminators : k <= j
                 run == cur \o SubSeq(s, 1, i - 1)
                 rest == SubSeq(s, i + 1, Len(s))
             IN  IF run = <<>> THEN MatchSentences(rest, <<>>)
                 ELSE <<Append(run, s[i])>> \o MatchSentences(rest, <<>>)

RECURSIVE MapTrim(_)
MapTrim(toks) ==
    IF toks = <<>> THEN <<>> ELSE <<Trim(Head(toks))>> \o MapTrim(Tail(toks))

SentenceTokens(t) == FilterNonEmpty(MapTrim(MatchSentences(t, <<>>)))

\* Array.from(text)
CharTokens(t) == [i \in 1..Len(t) |-> <<t[i]>>]

\* A grouping that keeps full groups only.
RECURSIVE GroupTokensFullOnly(_, _, _)
GroupTokensFullOnly(base, size, sep) ==
    IF Len(base) < size THEN <<>>
    ELSE <<Join(SubSeq(base, 1, size), sep)>>
         \o GroupTokensFullOnly(SubSeq(base, size + 1, Len(base)), size, sep)

\* baseTokens.slice(i, i + size).join(...) for i = 0, size, 2*size, ...
RECURSIVE GroupTokens(_, _, _)
GroupTokens(base, size, sep) ==
    IF base = <<>> THEN <<>>
    ELSE IF Len(base) <= size THEN <<Join(base, sep)>>
    ELSE <<Join(SubSeq(base, 1, size), sep)>>
         \o GroupTokens(SubSeq(base, size + 1, Len(base)), size, sep)

tokenizeText(t, unit, chunkSize) ==
    LET size == Max(1, chunkSize)
        baseTokens == IF unit = "char" THEN CharTokens(t)
                      ELSE IF unit = "sentence" THEN SentenceTokens(t)
                      ELSE WordTokens(t)
    IN  IF baseTokens = <<>> THEN <<>>
        ELSE IF size = 1 /\ unit # "chunk" THEN baseTokens
        ELSE GroupTokens(baseTokens, size, Joiner(unit))

(***************************************************************************)
(* Display windower                                                        *)
(***************************************************************************)
\* ((i % n) + n) % n of JavaScript, whose % takes the sign of the dividend.
JsMod(i, n) == IF i >= 0 THEN i % n ELSE -((-i) % n)
FloorMod(i, n) == JsMod(JsMod(i, n) + n, n)

\* A window that stops at the last token instead of wrapping.
WindowTokensNoWrap(tokens, safeStart, size) ==
    [k \in 1..size |-> tokens[Min(safeStart + k, Len(tokens))]]

\* The tokens at safeStart, safeStart + 1, ... (0-based, circular), size of them.
WindowTokens(tokens, safeStart, size) ==
    [k \in 1..size |-> tokens[((safeStart + k - 1) % Len(tokens)) + 1]]

getRsvpDisplayToken(tokens, startIndex, viewportTokenCount, unit) ==
    IF tokens = <<>> THEN <<>>
    ELSE LET size == Max(1, viewportTokenCount)
             safeStart == FloorMod(startIndex, Len(tokens))
         IN  IF size = 1 THEN tokens[safeStart + 1]
             ELSE Join(WindowTokens(tokens, safeStart, size), Joiner(unit))

getAdvanceCharacterCount(tokens, startIndex, advanceCount, unit) ==
    IF tokens = <<>> THEN 1
    ELSE LET safeStart == FloorMod(startIndex, Len(tokens))
             size == Max(1, advanceCount)
             movedText == Join(WindowTokens(tokens, safeStart, size), Joiner(unit))
         IN  Max(1, Len(movedText))

\* A test for sentence-terminal punctuation only (. ! ?), with the optional
\* closing quote or bracket.
endsWithSentenceTerminal(token) ==
    LET s == Trim(token)
        n == Len(s)
    IN  \/ n >= 1 /\ IsTerminator(s[n])
        \/ n >= 2 /\ IsCloser(s[n]) /\ IsTerminator(s[n - 1])

endsWithPausePunctuation(token) ==
    LET s == Trim(token)
        n == Len(s)
    IN  \/ n >= 1 /\ IsPauseMark(s[n])
        \/ n >= 2 /\ IsCloser(s[n]) /\ IsPauseMark(s[n - 1])


(***************************************************************************)
(* Viewport steps                                                          *)
(***************************************************************************)
RSVP_STEPS ==
    <<"letter-1", "letter-2", "letter-3", "word-1", "word-2", "word-3",
      "sentence", "page">>
CONTINUOUS_STEPS == RSVP_STEPS

getViewportStepsForMode(mode) ==
    IF mode = "continuous" THEN CONTINUOUS_STEPS ELSE RSVP_STEPS

getViewportTokenCount(step) ==
    IF step \in {"letter-1", "word-1", "sentence", "page"} THEN 1
    ELSE IF step \in {"letter-2", "word-2"} THEN 2
    ELSE 3

getTokenizationFromViewportStep(step) ==
    IF step = "letter-1" THEN [unit |-> "char", chunkSize |-> 1]
    ELSE IF step = "letter-2" THEN [unit |-> "char", chunkSize |-> 2]
    ELSE IF step = "letter-3" THEN [unit |-> "char", chunkSize |-> 3]
    ELSE IF step = "word-1" THEN [unit |-> "word", chunkSize |-> 1]
    ELSE IF step = "word-2" THEN [unit |-> "word", chunkSize |-> 2]
    ELSE IF step = "word-3" THEN [unit |-> "word", chunkSize |-> 3]
    ELSE IF step = "sentence" THEN [unit |-> "sentence", chunkSize |-> 1]
    ELSE [unit |-> "word", chunkSize |-> 20]

(***************************************************************************)
(* The default configuration (src/lib/condition-spec.ts), with the fields  *)
(* the pacing core reads.                                                  *)
(***************************************************************************)
conditionSpec ==
    [mode |-> "rsvp",
     tokenization |-> [unit |-> "word", chunkSize |-> 1],
     typography |-> [fontSizePx |-> 36, letterSpacingPx |-> 0],
     motion |->
        [autoplay |-> TRUE,
         speed |-> [unit |-> "cps", value |-> 24],
         rateControl |->
            [enabled |-> FALSE, minCps |-> 8, maxCps |-> 60, resetOnLeave |-> TRUE],
         direction |-> "horizontal",
         progression |-> "step",
         pauseAtPunctuation |-> [enabled |-> FALSE, delayMs |-> 250]]]

\* appendLog keeps the most recent LOG_LIMIT entries.
LOG_LIMIT == 200
\* The floor of a step's delay, and the delay of the first step of a timer loop.
MIN_STEP_MS == 20
SPEED_MIN_CPS == 1
SPEED_MAX_CPS == 80
FIRST_STEP_MS == 1
\* cycleLengthRef before the first measurement, in px.
INITIAL_CYCLE_PX == 2000

(***************************************************************************)
(* Settings documents                                                      *)
(***************************************************************************)
\* The value JSON.parse gives a numeral too large for a double: Infinity,
\* above every other number of the model.
Infinity == 1000000000

\* A value read from a parsed document: a number, a string, null, or
\* undefined for a key the document does not have.
JNum(n) == [t |-> "number", v |-> n, s |-> ""]
JStr(x) == [t |-> "string", v |-> 0, s |-> x]
JNull == [t |-> "null", v |-> 0, s |-> ""]
JUndefined == [t |-> "undefined", v |-> 0, s |-> ""]

\* JSON.stringify of a number: a numeral, or null for one that is not finite.
JsonNumber(n) == IF n = Infinity THEN JNull ELSE JNum(n)

\* The three sections handleUploadSettingsFile asks of a document.
SettingsSections == {"tokenization", "motion", "typography"}

\* What file.text() and JSON.parse make of a settings file: whether the text
\* parses, whether the value is an object, the sections it has, and its
\* content, where the members read through Number() or compared with
\* "wpm" are values of the document.
SettingsDoc(sp, unit, value, minCps, maxCps) ==
    [parses |-> TRUE, isObject |-> TRUE, sections |-> SettingsSections,
     body |-> [sp EXCEPT !.motion.speed = [unit |-> unit, value |-> value],
                         !.motion.rateControl.minCps = minCps,
                         !.motion.rateControl.maxCps = maxCps]]

\* handleDownloadSettings, and the file read back: JSON.stringify(spec).
ExportedDoc(sp) ==
    SettingsDoc(sp, JStr(sp.motion.speed.unit), JsonNumber(sp.motion.speed.value),
                JsonNumber(sp.motion.rateControl.minCps),
                JsonNumber(sp.motion.rateControl.maxCps))

(***************************************************************************)
(* Bounds of the model                                                     *)
(***************************************************************************)
\* Runs are explored up to this many log entries.
MaxLog == 3

\* The texts the user types or the default-text file holds.
TextEmpty == <<>>
TextBlank == <<" ">>
TextTwo == <<"a", ".", " ", "b">>
TextComma == <<"a", ",", " ", "b", ".", ")">>
Texts == {TextEmpty, TextBlank, TextTwo}
\* The texts the tokenizer is checked on, with the units and chunk sizes of
\* the documents that set its parameters.
TextLetters == <<"a", "b", "c", "d", "e">>
TextWords == <<" ", "a", " ", "b", "\n", " ", "c", ".", " ", "d", " ">>
TextEllipsis == <<"a", ".", ".", " ", "b", "!", "?">>
\* The text the page of src/unnamed/part_000 starts with.
Part000Text ==
    <<"T", "h", "e", " ", "q", "u", "i", "c", "k", " ", "b", "r", "o", "w",
      "n", " ", "f", "o", "x", " ", "j", "u", "m", "p", "s", " ", "o", "v",
      "e", "r", " ", "t", "h", "e", " ", "l", "a", "z", "y", " ", "d", "o",
      "g", ".", " ", "S", "i", "x", "t", "y", " ", "z", "i", "p", "p", "e",
      "r", "s", " ", "w", "e", "r", "e", " ", "q", "u", "i", "c", "k", "l",
      "y", " ", "p", "i", "c", "k", "e", "d", " ", "f", "r", "o", "m", " ",
      "t", "h", "e", " ", "w", "o", "v", "e", "n", " ", "j", "u", "t", "e",
      " ", "b", "a", "g", ".", " ", "A", " ", "w", "i", "z", "a", "r", "d",
      "s", " ", "j", "o", "b", " ", "i", "s", " ", "t", "o", " ", "v", "e",
      "x", " ", "c", "h", "u", "m", "p", "s", " ", "q", "u", "i", "c", "k",
      "l", "y", " ", "i", "n", " ", "f", "o", "g", ".">>
TokenTexts ==
    {TextEmpty, TextBlank, TextTwo, TextComma, TextLetters, TextWords, TextEllipsis}
MaxChunk == 5

\* The viewport steps the user picks.
ViewportSteps == {"letter-2", "word-1", "word-3", "page"}
\* The values of the advance-step slider.
AdvanceSteps == 1..3
\* The values of the speed slider (chars/sec), the punctuation delay slider (ms)
\* and the font size slider (px).
Speeds == {24, 80}
PauseDelays == {250, 500}
FontSizes == {12, 36}
\* The time between two animation frames, in ms.
FrameGaps == {500}
\* Pointer positions, in percent of the height of the viewport below its top
\* (beyond the edges included), and the settings documents that are imported.
PointerYs == {-20, 0, 50, 100}
ImportDocs ==
    {SettingsDoc([conditionSpec EXCEPT !.motion.rateControl.enabled = TRUE],
                 JStr("cps"), JNum(120), JNum(8), JNum(60)),
     SettingsDoc([conditionSpec EXCEPT !.mode = "scroll"],
                 JStr("wpm"), JNum(120), JNum(50), JNum(0)),
     SettingsDoc([conditionSpec EXCEPT !.motion.rateControl.enabled = TRUE],
                 JStr("pxps"), JNum(80), JNum(8), JNum(60))}
\* The settings files the user picks. Those that are imported: members that
\* are missing, zero, negative, not numeric or beyond the range of a double, a
\* minimum above the maximum, speeds in words per minute, in px per second and
\* without a unit.
AcceptedFiles ==
    {SettingsDoc(conditionSpec, JStr("cps"), JUndefined, JNum(50), JNum(10)),
     SettingsDoc([conditionSpec EXCEPT !.mode = "scroll"],
                 JStr("wpm"), JNum(120), JUndefined, JNum(0)),
     SettingsDoc([conditionSpec EXCEPT !.tokenization = [unit |-> "char", chunkSize |-> 2]],
                 JStr("wpm"), JNum(5), JNum(-5), JStr("fast")),
     SettingsDoc([conditionSpec EXCEPT !.mode = "continuous"],
                 JStr("pxps"), JNum(100), JNum(8), JNum(Infinity)),
     SettingsDoc([conditionSpec EXCEPT !.motion.rateControl.enabled = TRUE],
                 JUndefined, JNum(0), JNull, JNum(60)),
     SettingsDoc(conditionSpec, JStr("cps"), JNum(-5), JNum(30), JNum(30))}
\* Those that are not: a text that is not JSON, a value that is not an object
\* (a number, null), and objects without one of the sections.
RejectedContent ==
    SettingsDoc([conditionSpec EXCEPT !.mode = "continuous"],
                JStr("cps"), JNum(80), JNum(2), JNum(3))
RejectedFiles ==
    {[RejectedContent EXCEPT !.parses = FALSE, !.isObject = FALSE, !.sections = {}],
     [RejectedContent EXCEPT !.isObject = FALSE, !.sections = {}]}
    \cup {[RejectedContent EXCEPT !.sections = SettingsSections \ {x}] :
            x \in SettingsSections}
SettingsFiles == AcceptedFiles \cup RejectedFiles
TokenizationFiles ==
    {SettingsDoc([conditionSpec EXCEPT !.tokenization = [unit |-> u, chunkSize |-> n]],
                 JStr("cps"), JNum(24), JNum(8), JNum(60)) :
        u \in {"char", "word", "chunk", "sentence"}, n \in 1..MaxChunk}
\* The message of the SyntaxError of JSON.parse, which is the engine's.
SyntaxMessages == {"Unexpected token", "Unexpected end of JSON input"}
\* The extent of the viewport of the continuous renderer, in px.
ViewportPx == 300

\* The calls of getRsvpDisplayToken that are followed: token lists of up to
\* three tokens, start indices on both sides of 0 and of the length, window
\* sizes up to MaxWindow and beyond the length.
MaxStart == 7
MaxWindow == 3
WindowTokenLists ==
    {<<>>, <<<<"a">>>>, <<<<"a", ".">>, <<"b">>>>, <<<<"a">>, <<"b", "c">>, <<"d">>>>}
WindowCalls ==
    {[tokens |-> tk, startIndex |-> i, viewportTokenCount |-> w, unit |-> u,
      returned |-> FALSE, result |-> <<>>] :
        tk \in WindowTokenLists, i \in (-MaxStart)..MaxStart, w \in 1..MaxWindow,
        u \in {"char", "word"}}

\* The appends of a long session: past LOG_LIMIT, so that a full log is
\* appended to.
MaxAppends == 203

\* The token lists of the texts, units and chunk sizes above, computed once:
\* the useMemo of rsvpTokens and continuousTokens.
TokenizationUnits == {"char", "word", "chunk", "sentence"}
ChunkSizes == (1..MaxChunk) \cup {20}
TokenMemo ==
    [t \in Texts \cup TokenTexts \cup {Part000Text} |-> [u \in TokenizationUnits |-> [c \in ChunkSizes |->
        tokenizeText(t, u, c)]]]

MemoTokens(t, unit, chunkSize) ==
    IF t \in DOMAIN TokenMemo /\ unit \in TokenizationUnits /\ chunkSize \in ChunkSizes
    THEN TokenMemo[t][unit][chunkSize]
    ELSE tokenizeText(t, unit, chunkSize)

(***************************************************************************)
(* State                                                                   *)
(***************************************************************************)
VARIABLES
    mounted,        \* Home is mounted
    spec,           \* useState: the ConditionSpec
    viewportStep,   \* useState
    advanceStep,    \* useState
    rsvpIndex,      \* useState
    text,           \* useState
    logs,           \* logsRef.current: entries [event, index]
    rsvpIndexRef,   \* rsvpIndexRef.current
    baseSpeedBeforeMouseRef,  \* baseSpeedBeforeMouseRef.current, NULL or a speed
    fetchPending,   \* the fetch of the default text has not settled
    settingsModalError,  \* useState: the message of the settings dialog
    windowCall,     \* a call of getRsvpDisplayToken: its arguments and its result
    stepTimers,     \* the pending timeouts of the step timer effect
    renderer        \* NULL, or the mounted ContinuousRsvpRenderer

vars ==
    <<mounted, spec, viewportStep, advanceStep, rsvpIndex, text, logs,
      rsvpIndexRef, baseSpeedBeforeMouseRef, fetchPending, settingsModalError, stepTimers,
      renderer, windowCall>>

(***************************************************************************)
(* The values Home derives in a render                                     *)
(***************************************************************************)
rsvpChunkSize ==
    IF spec.mode = "rsvp" /\ viewportStep = "page"
    THEN Max(1, spec.tokenization.chunkSize) ELSE 1

rsvpTokens == MemoTokens(text, spec.tokenization.unit, rsvpChunkSize)

continuousTokens ==
    MemoTokens(text, spec.tokenization.unit, Max(1, spec.tokenization.chunkSize))

viewportTokenCount == getViewportTokenCount(viewportStep)

maxAdvanceStep == viewportTokenCount

\* The step without its upper clamp to the window.
effectiveAdvanceStepUnclamped == Max(1, IF advanceStep = 0 THEN 1 ELSE advanceStep)

effectiveAdvanceStep == Max(1, Min(maxAdvanceStep, IF advanceStep = 0 THEN 1 ELSE advanceStep))

\* The stored index as it is, not wrapped to the token list.
safeRsvpIndexUnwrapped == rsvpIndex

safeRsvpIndex == IF Len(rsvpTokens) # 0 THEN rsvpIndex % Len(rsvpTokens) ELSE 0

currentRsvpToken ==
    getRsvpDisplayToken(rsvpTokens, safeRsvpIndex, viewportTokenCount,
                        spec.tokenization.unit)

\* Manual advance offered while autoplay is on as well.
canManualAdvanceWhileRunning == spec.mode = "rsvp" /\ Len(rsvpTokens) > 0

canManualAdvance ==
    spec.mode = "rsvp" /\ ~spec.motion.autoplay /\ Len(rsvpTokens) > 0

(***************************************************************************)
(* The event log                                                           *)
(***************************************************************************)
\* The entry without its timestamp, which nothing reads.
LogEntry(event, index) == [event |-> event, index |-> index]

\* An appendLog that drops the entry.
appendLogDropped(log, entry) == log

\* An appendLog that makes room at the recent end of a full log.
appendLogKeepOldest(log, entry) ==
    LET next == Append(log, entry)
    IN  IF Len(next) > LOG_LIMIT
        THEN Append(SubSeq(log, 1, LOG_LIMIT - 1), entry)
        ELSE next

appendLog(log, entry) ==
    LET next == Append(log, entry)
    IN  IF Len(next) > LOG_LIMIT
        THEN SubSeq(next, Len(next) - LOG_LIMIT + 1, Len(next))
        ELSE next

\* The bound of the exploration: an operation that logs is explored while the
\* log is shorter than MaxLog.
LogRoom == Len(logs) < MaxLog

(***************************************************************************)
(* The step timer effect of Home                                           *)
(***************************************************************************)
\* Math.round(n / d) for n >= 0, d > 0
RoundDiv(n, d) == (2 * n + d) \div (2 * d)

\* What the callbacks of a render close over: advanceRsvp and the tick of the
\* step timer effect. The effect runs again when one of them changes (the token
\* list changes identity when the text, the unit or the chunk size does).
RenderClosure ==
    [effectiveAdvanceStep |-> effectiveAdvanceStep,
     text |-> text,
     unit |-> spec.tokenization.unit,
     rsvpChunkSize |-> rsvpChunkSize,
     viewportTokenCount |-> viewportTokenCount,
     mode |-> spec.mode,
     autoplay |-> spec.motion.autoplay,
     delayMs |-> spec.motion.pauseAtPunctuation.delayMs,
     enabled |-> spec.motion.pauseAtPunctuation.enabled,
     speed |-> spec.motion.speed.value]

ClosureTokens(cl) == MemoTokens(cl.text, cl.unit, cl.rsvpChunkSize)

\* The early return without its check of the mode.
StepTimerGuardAnyMode(cl) == ~(~cl.autoplay \/ Len(ClosureTokens(cl)) = 0)

\* The early return without its check for an empty token list.
StepTimerGuardEmptyAllowed(cl) == ~(cl.mode # "rsvp" \/ ~cl.autoplay)

\* The early return of the effect: no timer unless rsvp, autoplay and tokens.
StepTimerGuard(cl) ==
    ~(cl.mode # "rsvp" \/ ~cl.autoplay \/ Len(ClosureTokens(cl)) = 0)

\* A pending timeout: its delay, the closure of the effect run that armed it
\* and that run's `cancelled` flag.
StepTimer(delay, cl) == [delayMs |-> delay, cancelled |-> FALSE, closure |-> cl]

\* A cleanup that does nothing: the timeout stays armed and live.
StepTimerCleanupSkipped(timers) == timers

\* A cleanup that sets the flag only: cancelled = true, no clearTimeout.
StepTimerCleanupFlagOnly(timers) == {[t EXCEPT !.cancelled = TRUE] : t \in timers}

\* The cleanup of an effect run: cancelled = true; clearTimeout(timeoutId).
StepTimerCleanup(timers) == {t \in timers : t.cancelled}

\* The body of the effect: window.setTimeout(tick, 1) behind the guard.
StepTimerEffect(timers, cl) ==
    IF StepTimerGuard(cl) THEN timers \cup {StepTimer(FIRST_STEP_MS, cl)} ELSE timers

\* advanceRsvp as closed over by cl, from index ref: NULL, or the new index,
\* the token landed on and the character count crossed.
advanceRsvp(cl, ref) ==
    IF cl.mode # "rsvp" \/ Len(ClosureTokens(cl)) = 0 THEN NULL
    ELSE LET tokens == ClosureTokens(cl)
             currentIndex == ref
             next == (currentIndex + cl.effectiveAdvanceStep) % Len(tokens)
         IN  [isNull |-> FALSE,
              next |-> next,
              token |-> getRsvpDisplayToken(tokens, next, cl.viewportTokenCount, cl.unit),
              advancedCharCount |->
                  getAdvanceCharacterCount(tokens, currentIndex,
                                           cl.effectiveAdvanceStep, cl.unit)]

\* A delay without the floor of MIN_STEP_MS.
StepDelayNoFloor(cl, result) ==
    LET speedValue == Max(1, cl.speed)
        msPerToken == RoundDiv(result.advancedCharCount * 1000, speedValue)
        extraDelay == IF cl.enabled /\ endsWithPausePunctuation(result.token)
                         /\ cl.mode = "rsvp"
                      THEN Max(0, cl.delayMs) ELSE 0
    IN  msPerToken + extraDelay

\* The delay tick arms after an advance with this result.
StepDelay(cl, result) ==
    LET speedValue == Max(1, cl.speed)
        msPerToken == Max(MIN_STEP_MS, RoundDiv(result.advancedCharCount * 1000, speedValue))
        extraDelay == IF cl.enabled /\ endsWithPausePunctuation(result.token)
                         /\ cl.mode = "rsvp"
                      THEN Max(0, cl.delayMs) ELSE 0
    IN  msPerToken + extraDelay

(***************************************************************************)
(* ContinuousRsvpRenderer                                                  *)
(***************************************************************************)
\* offsetPx is held in units of 1/100000 px: speeds are in 1/100 px per second
\* and times in ms, so that their product is exact.

\* speedToPxPerSecond, in 1/100 px per second (0.62 px is 62 of them).
speedToPxPerSecond(sp) ==
    LET safeCharsPerSecond == Max(1, sp.motion.speed.value)
        approxCharPx == sp.typography.fontSizePx * 62 + sp.typography.letterSpacingPx * 100
    IN  Max(1000, safeCharsPerSecond * Max(100, approxCharPx))

\* The text the renderer lays out.
RendererText(sp, tokens) ==
    IF sp.motion.direction = "vertical" THEN Join(tokens, <<"\n">>)
    ELSE Join(tokens, Joiner(sp.tokenization.unit))

RendererContent(sp, tokens) ==
    IF RendererText(sp, tokens) = <<>> THEN 19 ELSE Len(RendererText(sp, tokens))

\* The key of the renderer element: a new key unmounts and mounts it anew.
RendererKey == <<spec.motion.direction, spec.motion.speed.value, Join(continuousTokens, <<"|">>)>>

\* The dependencies of the frame effect.
FrameDeps == <<speedToPxPerSecond(spec), spec.mode, spec.motion.autoplay>>

FrameGuard(sp) == ~(~sp.motion.autoplay \/ sp.mode # "continuous")

\* The ref callback: the extent of the laid out text plus that of the viewport,
\* in px. The host lays the text out; here a character is fontSizePx wide or
\* high and the viewport is ViewportPx in both directions.
MeasureCycleLength(sp, tokens) ==
    RendererContent(sp, tokens) * sp.typography.fontSizePx + ViewportPx

\* A newly mounted renderer after its first commit.
MountRenderer(sp, tokens) ==
    [isNull |-> FALSE,
     offsetPx |-> 0,
     rafRef |-> FrameGuard(sp),
     frames |-> IF FrameGuard(sp) THEN 1 ELSE 0,
     lastTsRef |-> NULL,
     cycleLengthRef |-> MeasureCycleLength(sp, tokens),
     pxPerSecond |-> speedToPxPerSecond(sp)]

\* frames counts the callbacks that are registered with the host and neither
\* ran nor were cancelled; rafRef tells whether rafRef.current holds an id.

\* A cleanup that forgets the id without cancelAnimationFrame.
FrameCleanupNoCancel(r) == [r EXCEPT !.rafRef = FALSE, !.lastTsRef = NULL]

\* A cleanup that leaves lastTsRef as it is.
FrameCleanupKeepTs(r) ==
    [r EXCEPT !.rafRef = FALSE, !.frames = IF r.rafRef THEN r.frames - 1 ELSE r.frames]

\* The cleanup of the frame effect: cancelAnimationFrame, both refs to null.
FrameCleanup(r) ==
    [r EXCEPT !.rafRef = FALSE,
              !.frames = IF r.rafRef THEN r.frames - 1 ELSE r.frames,
              !.lastTsRef = NULL]

\* The frame effect: requestAnimationFrame(tick) behind the guard.
FrameEffect(r, sp) ==
    IF FrameGuard(sp)
    THEN [r EXCEPT !.rafRef = TRUE, !.frames = r.frames + 1,
                   !.pxPerSecond = speedToPxPerSecond(sp)]
    ELSE r

\* An updater that wraps by carrying the overshoot over.
NextOffsetCarry(prev, pxPerSecond, dtMs, cycleLengthPx) ==
    (prev + pxPerSecond * dtMs) % (Max(1, cycleLengthPx) * 100000)

\* The updater of setOffsetPx in tick, dt in ms.
NextOffset(prev, pxPerSecond, dtMs, cycleLengthPx) ==
    LET next == prev + pxPerSecond * dtMs
        cycle == Max(1, cycleLengthPx) * 100000
    IN  IF next > cycle THEN 0 ELSE next

(***************************************************************************)
(* Render and commit                                                       *)
(***************************************************************************)
\* The renderer after the commit of a render of Home, r being what it was
\* after the handler ran.
RendererCommit(r) ==
    IF spec'.mode # "continuous" THEN NULL
    ELSE IF r = NULL \/ RendererKey' # RendererKey
         THEN MountRenderer(spec', continuousTokens')
    ELSE LET measured ==
                 [r EXCEPT !.cycleLengthRef = MeasureCycleLength(spec', continuousTokens')]
         IN  IF FrameDeps' # FrameDeps
             THEN FrameEffect(IF FrameGuard(spec) THEN FrameCleanup(measured)
                              ELSE measured, spec')
             ELSE measured

\* The step timers after the commit, timers being what they were after the
\* handler ran: the effect runs again when its dependencies changed.
StepTimerCommit(timers) ==
    IF RenderClosure' = RenderClosure THEN timers
    ELSE StepTimerEffect(IF StepTimerGuard(RenderClosure) THEN StepTimerCleanup(timers)
                         ELSE timers, RenderClosure')

\* Home without the mirroring effect: the ref is written by advances only.
IndexRefCommitNoSync(ref) == ref

\* The effect that mirrors safeRsvpIndex into rsvpIndexRef.
IndexRefCommit(ref) == IF safeRsvpIndex' # safeRsvpIndex THEN safeRsvpIndex' ELSE ref

\* Home without the effect on rateControl.enabled.
BaseSpeedCommitNone(base) == base

\* The effect that forgets the base speed when rate control is switched off.
BaseSpeedCommit(base) ==
    IF spec'.motion.rateControl.enabled # spec.motion.rateControl.enabled
       /\ ~spec'.motion.rateControl.enabled
    THEN NULL ELSE base

\* The render of the state an operation set and the effects of its commit;
\* ref, base, timers and r are the refs as the operation's handler left them.
Commit(ref, base, timers, r) ==
    /\ rsvpIndexRef' = IndexRefCommit(ref)
    /\ baseSpeedBeforeMouseRef' = BaseSpeedCommit(base)
    /\ stepTimers' = StepTimerCommit(timers)
    /\ renderer' = RendererCommit(r)

\* An operation whose handler touches no ref.
CommitState == Commit(rsvpIndexRef, baseSpeedBeforeMouseRef, stepTimers, renderer)

(***************************************************************************)
(* Operations                                                              *)
(***************************************************************************)
InitHome ==
    /\ mounted = TRUE
    /\ spec = conditionSpec
    /\ viewportStep = "word-1"
    /\ advanceStep = 1
    /\ rsvpIndex = 0
    /\ text = <<>>
    /\ logs = <<>>
    /\ rsvpIndexRef = 0
    /\ baseSpeedBeforeMouseRef = NULL
    /\ fetchPending = TRUE
    /\ settingsModalError = ""
    /\ stepTimers = {}
    /\ renderer = NULL

\* No call of getRsvpDisplayToken is followed.
NoWindowCall ==
    [tokens |-> <<>>, startIndex |-> 0, viewportTokenCount |-> 1, unit |-> "word",
     returned |-> FALSE, result |-> <<>>]

Init == InitHome /\ windowCall = NoWindowCall

\* The textarea's onChange.
SetText(t) ==
    /\ mounted /\ t # text
    /\ text' = t
    /\ UNCHANGED <<mounted, spec, viewportStep, advanceStep, rsvpIndex, logs,
                   fetchPending, settingsModalError, windowCall>>
    /\ CommitState

\* loadDefaultText after its fetch settled: ok with the text of the file, or
\* not ok (a failed fetch or a response that is not OK).
DefaultTextLoaded(ok, t) ==
    /\ fetchPending
    /\ fetchPending' = FALSE
    /\ text' = IF ok /\ mounted THEN t ELSE text
    /\ UNCHANGED <<mounted, spec, viewportStep, advanceStep, rsvpIndex, logs,
                   settingsModalError, windowCall>>
    /\ IF mounted THEN CommitState
       ELSE UNCHANGED <<rsvpIndexRef, baseSpeedBeforeMouseRef, stepTimers, renderer>>

\* An operation that replaces the ConditionSpec and nothing else.
SetSpec(next) ==
    /\ mounted
    /\ spec' = next
    /\ UNCHANGED <<mounted, viewportStep, advanceStep, rsvpIndex, text, logs,
                   fetchPending, settingsModalError, windowCall>>
    /\ CommitState

\* A control fires onChange when the user moves it to another value.

\* The Mode select.
SetMode(m) ==
    /\ m # spec.mode
    /\ SetSpec([spec EXCEPT !.mode = m])

\* The speed slider of the Playback and of the Continuous section.
SetSpeed(v) ==
    /\ v # spec.motion.speed.value
    /\ SetSpec([spec EXCEPT !.motion.speed = [unit |-> "cps", value |-> Max(1, v)]])

\* The controls of the Playback section only.
SetPauseEnabled(b) ==
    /\ spec.mode = "rsvp" /\ b # spec.motion.pauseAtPunctuation.enabled
    /\ SetSpec([spec EXCEPT !.motion.pauseAtPunctuation.enabled = b])

SetPauseDelay(d) ==
    /\ spec.mode = "rsvp" /\ spec.motion.pauseAtPunctuation.enabled
    /\ d # spec.motion.pauseAtPunctuation.delayMs
    /\ SetSpec([spec EXCEPT !.motion.pauseAtPunctuation.delayMs = Max(0, d)])

\* The Direction select of the Continuous section.
SetDirection(d) ==
    /\ spec.mode = "continuous" /\ d # spec.motion.direction
    /\ SetSpec([spec EXCEPT !.motion.direction = d])

\* The Font Size slider.
SetFontSize(f) ==
    /\ f # spec.typography.fontSizePx
    /\ SetSpec([spec EXCEPT !.typography.fontSizePx = Max(12, f)])

\* The checkboxes of the Rate Control section; the second is disabled while
\* rate control is.
SetRateControlEnabled(b) ==
    /\ b # spec.motion.rateControl.enabled
    /\ SetSpec([spec EXCEPT !.motion.rateControl.enabled = b])

SetResetOnLeave(b) ==
    /\ spec.motion.rateControl.enabled /\ b # spec.motion.rateControl.resetOnLeave
    /\ SetSpec([spec EXCEPT !.motion.rateControl.resetOnLeave = b])

\* The speed a pointer at clientY maps to, clientY in percent of rect.height
\* below rect.top.
PointerCps(clientY) ==
    LET yNorm == clamp(clientY, 0, 100)
        mapped == 100 - yNorm
    IN  clamp(RoundDiv(SPEED_MIN_CPS * 100 + mapped * (SPEED_MAX_CPS - SPEED_MIN_CPS), 100),
              SPEED_MIN_CPS, SPEED_MAX_CPS)

\* A speed held by baseSpeedBeforeMouseRef.
BaseSpeed(v) == [isNull |-> FALSE, value |-> v]

\* onMouseMove of the viewport; laidOut tells whether rect.height > 0.
handleViewportMouseMove(clientY, laidOut) ==
    /\ mounted
    /\ IF ~spec.motion.rateControl.enabled
       THEN UNCHANGED vars
       ELSE LET base == IF baseSpeedBeforeMouseRef = NULL
                        THEN BaseSpeed(spec.motion.speed.value)
                        ELSE baseSpeedBeforeMouseRef
                nextCps == PointerCps(clientY)
            IN  /\ spec' = IF ~laidOut \/ spec.motion.speed.value = nextCps THEN spec
                            ELSE [spec EXCEPT !.motion.speed =
                                                  [unit |-> "cps", value |-> nextCps]]
                /\ UNCHANGED <<mounted, viewportStep, advanceStep, rsvpIndex, text, logs,
                               fetchPending, settingsModalError, windowCall>>
                /\ Commit(rsvpIndexRef, base, stepTimers, renderer)

\* A leave that restores the speed and keeps the base.
handleViewportMouseLeaveKeepBase ==
    /\ mounted
    /\ spec' = IF spec.motion.rateControl.resetOnLeave /\ baseSpeedBeforeMouseRef # NULL
               THEN [spec EXCEPT !.motion.speed =
                        [unit |-> "cps",
                         value |-> clamp(baseSpeedBeforeMouseRef.value,
                                         SPEED_MIN_CPS, SPEED_MAX_CPS)]]
               ELSE spec
    /\ UNCHANGED <<mounted, viewportStep, advanceStep, rsvpIndex, text, logs,
                   fetchPending, settingsModalError, windowCall>>
    /\ Commit(rsvpIndexRef, baseSpeedBeforeMouseRef, stepTimers, renderer)

\* onMouseLeave of the viewport. The speeds of the model are whole numbers,
\* which Math.round leaves as they are.
handleViewportMouseLeave ==
    /\ mounted
    /\ spec' = IF spec.motion.rateControl.resetOnLeave /\ baseSpeedBeforeMouseRef # NULL
               THEN [spec EXCEPT !.motion.speed =
                        [unit |-> "cps",
                         value |-> clamp(baseSpeedBeforeMouseRef.value,
                                         SPEED_MIN_CPS, SPEED_MAX_CPS)]]
               ELSE spec
    /\ UNCHANGED <<mounted, viewportStep, advanceStep, rsvpIndex, text, logs,
                   fetchPending, settingsModalError, windowCall>>
    /\ Commit(rsvpIndexRef, NULL, stepTimers, renderer)

\* Number(x) || fallback, for a value x of a document: the number, unless it
\* is 0; the fallback for null (0), for undefined and for a string that is
\* not a numeral (NaN).
NumberOr(x, fallback) == IF x.t = "number" /\ x.v # 0 THEN x.v ELSE fallback

\* A speed that is taken as the document gives it, words per minute included.
NormalizedSpeedKeepWpm(speed) ==
    [unit |-> IF speed.unit.t \in {"undefined", "null"}
              THEN conditionSpec.motion.speed.unit
              ELSE speed.unit.s,
     value |-> Max(1, NumberOr(speed.value, conditionSpec.motion.speed.value))]

\* The speed member of `next`.
NormalizedSpeed(speed) ==
    LET wpm == speed.unit = JStr("wpm")
    IN  [unit |-> IF wpm THEN "cps"
                  ELSE IF speed.unit.t \in {"undefined", "null"}
                       THEN conditionSpec.motion.speed.unit
                       ELSE speed.unit.s,
         value |-> IF wpm
                   THEN Max(1, RoundDiv(NumberOr(speed.value, 0), 12))
                   ELSE Max(1, NumberOr(speed.value, conditionSpec.motion.speed.value))]

\* minCps and maxCps of `next`, without normalizedMinCps and normalizedMaxCps.
NormalizedRateControlUnordered(rateControl) ==
    [rateControl EXCEPT
        !.minCps = Max(1, NumberOr(rateControl.minCps,
                                   conditionSpec.motion.rateControl.minCps)),
        !.maxCps = Max(1, NumberOr(rateControl.maxCps,
                                   conditionSpec.motion.rateControl.maxCps))]

\* The rateControl member of the ConditionSpec that is set: minCps and maxCps
\* of `next`, then normalizedMinCps and normalizedMaxCps.
NormalizedRateControl(rateControl) ==
    LET minCps == Max(1, NumberOr(rateControl.minCps,
                                  conditionSpec.motion.rateControl.minCps))
        maxCps == Max(1, NumberOr(rateControl.maxCps,
                                  conditionSpec.motion.rateControl.maxCps))
        normalizedMinCps == Max(1, Min(minCps, maxCps))
        normalizedMaxCps == Max(normalizedMinCps, maxCps)
    IN  [rateControl EXCEPT !.minCps = normalizedMinCps, !.maxCps = normalizedMaxCps]

\* The ConditionSpec handleUploadSettingsFile builds from the content of a
\* document that has its tokenization, motion and typography sections.
NormalizedSpec(parsed) ==
    [parsed EXCEPT
        !.mode = IF parsed.mode \in {"rsvp", "continuous"} THEN parsed.mode
                 ELSE "continuous",
        !.motion.speed = NormalizedSpeed(parsed.motion.speed),
        !.motion.rateControl = NormalizedRateControl(parsed.motion.rateControl)]

getViewportStepFromTokenization(unit, chunkSize) ==
    LET size == Max(1, IF chunkSize = 0 THEN 1 ELSE chunkSize)
    IN  IF unit = "sentence" THEN "sentence"
        ELSE IF unit = "char"
             THEN (IF size = 1 THEN "letter-1" ELSE IF size = 2 THEN "letter-2"
                   ELSE "letter-3")
        ELSE IF size = 1 THEN "word-1" ELSE IF size = 2 THEN "word-2" ELSE "word-3"

\* A check that does not ask for the typography section.
InvalidStructureTwoSections(file) ==
    ~file.isObject \/ ~({"tokenization", "motion"} \subseteq file.sections)

\* The check of the structure in handleUploadSettingsFile: it throws for a
\* value that is not an object or lacks one of the three sections.
InvalidStructure(file) == ~file.isObject \/ ~(SettingsSections \subseteq file.sections)

\* handleUploadSettingsFile once the file is read, for a document it does not
\* throw on.
handleUploadSettingsFile(file) ==
    /\ spec' = NormalizedSpec(file.body)
    /\ viewportStep' = getViewportStepFromTokenization(spec'.tokenization.unit,
                                                       spec'.tokenization.chunkSize)
    /\ settingsModalError' = ""
    /\ UNCHANGED <<mounted, advanceStep, rsvpIndex, text, logs, fetchPending, windowCall>>
    /\ CommitState

\* onChange of the file input of the settings dialog, once the file is read:
\* the try / catch around handleUploadSettingsFile. syntaxMessage is the
\* message of the error JSON.parse throws for a text that does not parse.
handleSettingsFileChange(file, syntaxMessage) ==
    /\ mounted
    /\ IF ~file.parses \/ InvalidStructure(file)
       THEN /\ settingsModalError' = IF ~file.parses THEN syntaxMessage
                                     ELSE "Invalid settings JSON structure."
            /\ UNCHANGED <<mounted, spec, viewportStep, advanceStep, rsvpIndex, text, logs,
                           rsvpIndexRef, baseSpeedBeforeMouseRef, fetchPending,
                           stepTimers, renderer, windowCall>>
       ELSE handleUploadSettingsFile(file)

\* The Viewport Step slider.
applyViewportStep(step) ==
    /\ mounted /\ step # viewportStep
    /\ viewportStep' = step
    /\ spec' = [spec EXCEPT !.tokenization = getTokenizationFromViewportStep(step)]
    /\ UNCHANGED <<mounted, advanceStep, rsvpIndex, text, logs, fetchPending, settingsModalError, windowCall>>
    /\ CommitState

\* The Advance Step slider, enabled in rsvp mode: it shows effectiveAdvanceStep
\* and ranges over 1..maxAdvanceStep.
SetAdvanceStep(v) ==
    /\ mounted /\ spec.mode = "rsvp"
    /\ v \in 1..maxAdvanceStep /\ v # effectiveAdvanceStep
    /\ advanceStep' = Max(1, Min(maxAdvanceStep, IF v = 0 THEN 1 ELSE v))
    /\ UNCHANGED <<mounted, spec, viewportStep, rsvpIndex, text, logs,
                   fetchPending, settingsModalError, windowCall>>
    /\ CommitState

\* The Autoplay checkboxes and the Play / Pause button.
setAutoplay(autoplay) ==
    /\ mounted /\ LogRoom
    /\ spec' = [spec EXCEPT !.motion.autoplay = autoplay]
    /\ logs' = appendLog(logs, LogEntry(IF autoplay THEN "start" ELSE "stop", safeRsvpIndex))
    /\ UNCHANGED <<mounted, viewportStep, advanceStep, rsvpIndex, text,
                   fetchPending, settingsModalError, windowCall>>
    /\ CommitState

\* The Reset button of the Playback section.
Reset ==
    /\ mounted /\ spec.mode = "rsvp" /\ LogRoom
    /\ rsvpIndex' = 0
    /\ logs' = appendLog(logs, LogEntry("stop", 0))
    /\ UNCHANGED <<mounted, spec, viewportStep, advanceStep, text,
                   fetchPending, settingsModalError, windowCall>>
    /\ Commit(0, baseSpeedBeforeMouseRef, stepTimers, renderer)

\* advanceRsvp("manual") of the current render.
ManualAdvance ==
    LET result == advanceRsvp(RenderClosure, rsvpIndexRef)
    IN  /\ UNCHANGED <<mounted, spec, viewportStep, advanceStep, text,
                       fetchPending, settingsModalError, windowCall>>
        /\ IF result = NULL
           THEN UNCHANGED <<rsvpIndex, logs, rsvpIndexRef, baseSpeedBeforeMouseRef,
                            stepTimers, renderer>>
           ELSE /\ LogRoom
                /\ rsvpIndex' = result.next
                /\ logs' = appendLog(logs, LogEntry("manual", result.next))
                /\ Commit(result.next, baseSpeedBeforeMouseRef, stepTimers, renderer)

\* A request that reaches no handler.
Ignored ==
    UNCHANGED <<mounted, spec, viewportStep, advanceStep, rsvpIndex, text, logs,
                   rsvpIndexRef, baseSpeedBeforeMouseRef, fetchPending,
                   settingsModalError, windowCall, stepTimers,
                   renderer>>

\* A click on the viewport: onClick is onManualAdvance when manualAdvanceEnabled.
ViewportClick ==
    /\ mounted
    /\ IF canManualAdvance THEN ManualAdvance ELSE Ignored

\* The Space key, in a form field or outside of one: the keydown listener is
\* registered while canManualAdvance.
SpaceKey(inField) ==
    /\ mounted
    /\ IF canManualAdvance /\ ~inField THEN ManualAdvance ELSE Ignored

\* A pending timeout of the step timer effect fires: tick. room bounds the
\* log of the explored session.
StepTimerTick(room) ==
    \E t \in stepTimers :
        LET result == advanceRsvp(t.closure, rsvpIndexRef)
            fired == stepTimers \ {t}
        IN  /\ UNCHANGED <<mounted, spec, viewportStep, advanceStep, text,
                           fetchPending, settingsModalError, windowCall>>
            /\ IF t.cancelled \/ result = NULL
               THEN /\ stepTimers' = fired
                    /\ UNCHANGED <<rsvpIndex, logs, rsvpIndexRef, baseSpeedBeforeMouseRef,
                                   renderer>>
               ELSE /\ room
                    /\ logs' = appendLog(logs, LogEntry("tick", result.next))
                    /\ LET armed == fired \cup {StepTimer(StepDelay(t.closure, result), t.closure)}
                       IN  IF mounted
                           THEN /\ rsvpIndex' = result.next
                                /\ Commit(result.next, baseSpeedBeforeMouseRef, armed, renderer)
                           ELSE /\ rsvpIndex' = rsvpIndex
                                /\ rsvpIndexRef' = result.next
                                /\ stepTimers' = armed
                                /\ UNCHANGED <<baseSpeedBeforeMouseRef, renderer>>

StepTimerFire == StepTimerTick(LogRoom)

\* The registered frame callback runs, gap ms after the frame before: tick of
\* ContinuousRsvpRenderer, and the render of the offset it set.
AnimationFrame(gap) ==
    /\ renderer # NULL /\ renderer.frames > 0
    /\ LET dt == IF renderer.lastTsRef = NULL THEN 0 ELSE gap
       IN  renderer' =
               [renderer EXCEPT
                   !.lastTsRef = SomeTimestamp,
                   !.offsetPx = NextOffset(renderer.offsetPx, renderer.pxPerSecond, dt,
                                           renderer.cycleLengthRef),
                   !.rafRef = TRUE,
                   !.frames = (renderer.frames - 1) + 1]
    /\ UNCHANGED <<mounted, spec, viewportStep, advanceStep, rsvpIndex, text, logs,
                   rsvpIndexRef, baseSpeedBeforeMouseRef, fetchPending,
                   settingsModalError, windowCall, stepTimers>>

\* Home is torn down: the cleanups of its effects and of the renderer's. The
\* state of the component is gone (it reads as in Init); the refs live on in
\* the closures of the callbacks that are still pending.
Unmount ==
    /\ mounted
    /\ mounted' = FALSE
    /\ stepTimers' = IF StepTimerGuard(RenderClosure) THEN StepTimerCleanup(stepTimers)
                     ELSE stepTimers
    /\ renderer' = NULL
    /\ spec' = conditionSpec /\ viewportStep' = "word-1" /\ advanceStep' = 1
    /\ rsvpIndex' = 0 /\ text' = <<>> /\ settingsModalError' = ""
    /\ UNCHANGED <<logs, rsvpIndexRef, baseSpeedBeforeMouseRef, fetchPending, windowCall>>

Next ==
    \/ \E t \in Texts : SetText(t)
    \/ \E ok \in BOOLEAN, t \in Texts : DefaultTextLoaded(ok, t)
    \/ \E m \in {"rsvp", "continuous"} : SetMode(m)
    \/ \E v \in Speeds : SetSpeed(v)
    \/ \E b \in BOOLEAN : SetPauseEnabled(b)
    \/ \E d \in PauseDelays : SetPauseDelay(d)
    \/ \E d \in {"horizontal", "vertical"} : SetDirection(d)
    \/ \E f \in FontSizes : SetFontSize(f)
    \/ \E step \in ViewportSteps : applyViewportStep(step)
    \/ \E v \in AdvanceSteps : SetAdvanceStep(v)
    \/ \E a \in BOOLEAN : setAutoplay(a)
    \/ Reset
    \/ ViewportClick
    \/ \E inField \in BOOLEAN : SpaceKey(inField)
    \/ StepTimerFire
    \/ \E gap \in FrameGaps : AnimationFrame(gap)
    \/ \E b \in BOOLEAN : SetRateControlEnabled(b)
    \/ \E b \in BOOLEAN : SetResetOnLeave(b)
    \/ \E y \in PointerYs, laidOut \in BOOLEAN : handleViewportMouseMove(y, laidOut)
    \/ handleViewportMouseLeave
    \/ \E file \in ImportDocs, m \in SyntaxMessages : handleSettingsFileChange(file, m)
    \/ Unmount

Spec == Init /\ [][Next]_vars

(***************************************************************************)
(* The specifications the properties are checked under: each takes the     *)
(* operations of one part of the engine, so each of its behaviours is a    *)
(* behaviour of Spec.                                                      *)
(***************************************************************************)
\* Playback: what moves the index and what changes the token list.
NextPlayback ==
    \/ \E t \in Texts : SetText(t)
    \/ \E m \in {"rsvp", "continuous"} : SetMode(m)
    \/ \E step \in ViewportSteps : applyViewportStep(step)
    \/ \E v \in AdvanceSteps : SetAdvanceStep(v)
    \/ \E a \in BOOLEAN : setAutoplay(a)
    \/ Reset
    \/ ViewportClick
    \/ \E inField \in BOOLEAN : SpaceKey(inField)
    \/ StepTimerFire

SpecPlayback == Init /\ [][NextPlayback]_vars

\* The step timer: what arms, re-arms and cancels it.
NextTimer ==
    \/ \E t \in {TextEmpty, TextTwo, TextComma} : SetText(t)
    \/ \E m \in {"rsvp", "continuous"} : SetMode(m)
    \/ \E v \in Speeds : SetSpeed(v)
    \/ \E b \in BOOLEAN : SetPauseEnabled(b)
    \/ \E d \in PauseDelays : SetPauseDelay(d)
    \/ \E step \in {"word-1", "word-3"} : applyViewportStep(step)
    \/ \E v \in AdvanceSteps : SetAdvanceStep(v)
    \/ \E a \in BOOLEAN : setAutoplay(a)
    \/ StepTimerFire
    \/ Unmount

SpecTimer == Init /\ [][NextTimer]_vars

\* The two engines: the step timer and the animation frame loop.
NextEngines ==
    \/ \E t \in {TextEmpty, TextTwo} : SetText(t)
    \/ \E m \in {"rsvp", "continuous"} : SetMode(m)
    \/ \E v \in Speeds : SetSpeed(v)
    \/ \E b \in BOOLEAN : SetPauseEnabled(b)
    \/ \E d \in {"horizontal", "vertical"} : SetDirection(d)
    \/ \E f \in FontSizes : SetFontSize(f)
    \/ \E a \in BOOLEAN : setAutoplay(a)
    \/ StepTimerFire
    \/ \E gap \in FrameGaps : AnimationFrame(gap)
    \/ Unmount

SpecEngines == Init /\ [][NextEngines]_vars

\* The settings dialog: import, export and import again, and the controls
\* that write what a document holds.
ImportExported(syntaxMessage) == handleSettingsFileChange(ExportedDoc(spec), syntaxMessage)

NextSettings ==
    \/ \E file \in SettingsFiles, m \in SyntaxMessages : handleSettingsFileChange(file, m)
    \/ \E m \in SyntaxMessages : ImportExported(m)
    \/ \E m \in {"rsvp", "continuous"} : SetMode(m)
    \/ \E v \in Speeds : SetSpeed(v)
    \/ \E f \in FontSizes : SetFontSize(f)
    \/ \E step \in {"letter-2", "page"} : applyViewportStep(step)
    \/ \E b \in BOOLEAN : SetRateControlEnabled(b)
    \/ \E b \in BOOLEAN : SetResetOnLeave(b)

SpecSettings == Init /\ [][NextSettings]_vars

\* The tokenizer: the text, and the unit and chunk size a viewport step or an
\* imported document sets.
NextTokenizer ==
    \/ \E t \in TokenTexts : SetText(t)
    \/ \E step \in {"letter-3", "sentence", "page"} : applyViewportStep(step)
    \/ \E file \in TokenizationFiles, m \in SyntaxMessages :
          handleSettingsFileChange(file, m)

SpecTokenizer == Init /\ [][NextTokenizer]_vars

\* getRsvpDisplayToken on its own: a call with arguments of WindowCalls, and
\* its return.
InitWindowAt == InitHome /\ windowCall \in WindowCalls

ApplyWindowAt ==
    /\ ~windowCall.returned
    /\ windowCall' =
          [windowCall EXCEPT
              !.returned = TRUE,
              !.result = getRsvpDisplayToken(windowCall.tokens, windowCall.startIndex,
                                             windowCall.viewportTokenCount,
                                             windowCall.unit)]
    /\ UNCHANGED <<mounted, spec, viewportStep, advanceStep, rsvpIndex, text, logs,
                   rsvpIndexRef, baseSpeedBeforeMouseRef, fetchPending,
                   settingsModalError, stepTimers, renderer>>

NextWindowAt == ApplyWindowAt

SpecWindowAt == InitWindowAt /\ [][NextWindowAt]_vars

(***************************************************************************)
(* The page of src/unnamed/part_000: Home with a progression setting, and  *)
(* a continuous renderer inside rsvp mode.                                 *)
(***************************************************************************)
Part000Tokens == MemoTokens(text, spec.tokenization.unit, spec.tokenization.chunkSize)

Part000SafeRsvpIndex ==
    IF Len(Part000Tokens) > 0 THEN rsvpIndex % Len(Part000Tokens) ELSE 0

\* What tick closes over, and the dependencies of the step timer effect.
Part000Closure ==
    [text |-> text,
     unit |-> spec.tokenization.unit,
     chunkSize |-> spec.tokenization.chunkSize,
     mode |-> spec.mode,
     autoplay |-> spec.motion.autoplay,
     direction |-> spec.motion.direction,
     delayMs |-> spec.motion.pauseAtPunctuation.delayMs,
     enabled |-> spec.motion.pauseAtPunctuation.enabled,
     progression |-> spec.motion.progression,
     speed |-> spec.motion.speed.value]

Part000ClosureTokens(cl) == MemoTokens(cl.text, cl.unit, cl.chunkSize)

\* The early return of the step timer effect.
Part000StepTimerGuard(cl) ==
    ~(cl.mode # "rsvp" \/ ~cl.autoplay \/ Len(Part000ClosureTokens(cl)) = 0)

Part000StepTimerEffect(timers, cl) ==
    IF Part000StepTimerGuard(cl) THEN timers \cup {StepTimer(1, cl)} ELSE timers

\* The delay tick arms after landing on token.
Part000StepDelay(cl, token) ==
    LET speedValue == Max(50, cl.speed)
        msPerToken == Max(50, RoundDiv(60000, speedValue))
        extraDelay == IF cl.enabled /\ endsWithPausePunctuation(token)
                         /\ cl.progression = "step"
                      THEN Max(0, cl.delayMs) ELSE 0
    IN  msPerToken + extraDelay

\* speedToPxPerSecond of the variant, in 1/100 px per second: words per
\* second times 3.6 font sizes.
Part000SpeedToPxPerSecond(sp) ==
    Max(1000, Max(1, sp.motion.speed.value) * sp.typography.fontSizePx * 6)

Part000RendererKey ==
    <<spec.motion.direction, spec.motion.speed.value, Join(Part000Tokens, <<"|">>)>>

Part000FrameDeps ==
    <<Part000SpeedToPxPerSecond(spec), spec.mode, spec.motion.autoplay,
      spec.motion.progression>>

Part000FrameGuard(sp) ==
    ~(~sp.motion.autoplay \/ sp.mode # "rsvp" \/ sp.motion.progression # "continuous")

Part000MountRenderer(sp, tokens) ==
    [isNull |-> FALSE,
     offsetPx |-> 0,
     rafRef |-> Part000FrameGuard(sp),
     frames |-> IF Part000FrameGuard(sp) THEN 1 ELSE 0,
     lastTsRef |-> NULL,
     cycleLengthRef |-> MeasureCycleLength(sp, tokens),
     pxPerSecond |-> Part000SpeedToPxPerSecond(sp)]

Part000FrameEffect(r, sp) ==
    IF Part000FrameGuard(sp)
    THEN [r EXCEPT !.rafRef = TRUE, !.frames = r.frames + 1,
                   !.pxPerSecond = Part000SpeedToPxPerSecond(sp)]
    ELSE r

\* Viewport renders ContinuousRsvpRenderer in rsvp mode with continuous
\* progression, and RsvpRenderer or ParagraphRenderer otherwise.
Part000RendererCommit(r) ==
    IF ~(spec'.mode = "rsvp" /\ spec'.motion.progression = "continuous") THEN NULL
    ELSE IF r = NULL \/ Part000RendererKey' # Part000RendererKey
         THEN Part000MountRenderer(spec', Part000Tokens')
    ELSE LET measured ==
                 [r EXCEPT !.cycleLengthRef = MeasureCycleLength(spec', Part000Tokens')]
         IN  IF Part000FrameDeps' # Part000FrameDeps
             THEN Part000FrameEffect(IF Part000FrameGuard(spec) THEN FrameCleanup(measured)
                                     ELSE measured, spec')
             ELSE measured

Part000StepTimerCommit(timers) ==
    IF Part000Closure' = Part000Closure THEN timers
    ELSE Part000StepTimerEffect(IF Part000StepTimerGuard(Part000Closure)
                                THEN StepTimerCleanup(timers) ELSE timers,
                                Part000Closure')

\* The render of the state an operation set and the effects of its commit.
Part000Commit(ref, timers) ==
    /\ rsvpIndexRef' = IF Part000SafeRsvpIndex' # Part000SafeRsvpIndex
                       THEN Part000SafeRsvpIndex' ELSE ref
    /\ stepTimers' = Part000StepTimerCommit(timers)
    /\ renderer' = Part000RendererCommit(renderer)
    /\ UNCHANGED <<mounted, advanceStep, baseSpeedBeforeMouseRef, fetchPending,
                   settingsModalError, windowCall>>

Part000Init ==
    /\ mounted = TRUE
    /\ spec = [conditionSpec EXCEPT !.motion.speed.unit = "wpm"]
    /\ viewportStep = "word-1"
    /\ advanceStep = 1
    /\ rsvpIndex = 0
    /\ text = Part000Text
    /\ logs = <<>>
    /\ rsvpIndexRef = 0
    /\ baseSpeedBeforeMouseRef = NULL
    /\ fetchPending = FALSE
    /\ settingsModalError = ""
    /\ stepTimers = Part000StepTimerEffect({}, Part000Closure)
    /\ renderer = NULL
    /\ windowCall = NoWindowCall

Part000SetText(t) ==
    /\ t # text
    /\ text' = t
    /\ UNCHANGED <<spec, viewportStep, rsvpIndex, logs>>
    /\ Part000Commit(rsvpIndexRef, stepTimers)

\* The Progression select.
Part000SetProgression(p) ==
    /\ p # spec.motion.progression
    /\ spec' = [spec EXCEPT !.motion.progression = p]
    /\ UNCHANGED <<viewportStep, rsvpIndex, text, logs>>
    /\ Part000Commit(rsvpIndexRef, stepTimers)

Part000applyViewportStep(step) ==
    /\ step # viewportStep
    /\ viewportStep' = step
    /\ spec' = [spec EXCEPT !.mode = "rsvp",
                            !.tokenization = getTokenizationFromViewportStep(step)]
    /\ UNCHANGED <<rsvpIndex, text, logs>>
    /\ Part000Commit(rsvpIndexRef, stepTimers)

Part000setAutoplay(autoplay) ==
    /\ LogRoom
    /\ spec' = [spec EXCEPT !.motion.autoplay = autoplay]
    /\ logs' = appendLog(logs, LogEntry(IF autoplay THEN "start" ELSE "stop",
                                        Part000SafeRsvpIndex))
    /\ UNCHANGED <<viewportStep, rsvpIndex, text>>
    /\ Part000Commit(rsvpIndexRef, stepTimers)

\* A pending timeout of the step timer effect fires: tick.
Part000StepTimerFire ==
    \E t \in stepTimers :
        LET tokens == Part000ClosureTokens(t.closure)
            next == (rsvpIndexRef + 1) % Len(tokens)
            fired == stepTimers \ {t}
        IN  /\ UNCHANGED <<spec, viewportStep, text>>
            /\ IF t.cancelled
               THEN /\ stepTimers' = fired
                    /\ UNCHANGED <<mounted, advanceStep, rsvpIndex, logs, rsvpIndexRef,
                                   baseSpeedBeforeMouseRef, fetchPending,
                                   settingsModalError, windowCall, renderer>>
               ELSE /\ LogRoom
                    /\ rsvpIndex' = next
                    /\ logs' = appendLog(logs, LogEntry("tick", next))
                    /\ Part000Commit(next,
                                     fired \cup {StepTimer(Part000StepDelay(t.closure,
                                                                            tokens[next + 1]),
                                                           t.closure)})

NextPart000 ==
    \/ \E t \in {TextEmpty, TextTwo, Part000Text} : Part000SetText(t)
    \/ \E p \in {"step", "continuous"} : Part000SetProgression(p)
    \/ \E step \in {"word-1", "sentence"} : Part000applyViewportStep(step)
    \/ \E a \in BOOLEAN : Part000setAutoplay(a)
    \/ Part000StepTimerFire
    \/ \E gap \in FrameGaps : AnimationFrame(gap)

SpecPart000 == Part000Init /\ [][NextPart000]_vars

\* Rate control: its two checkboxes, the pointer over the viewport, and the
\* other writers of the speed.
NextRate ==
    \/ \E m \in {"rsvp", "continuous"} : SetMode(m)
    \/ \E v \in Speeds : SetSpeed(v)
    \/ \E b \in BOOLEAN : SetRateControlEnabled(b)
    \/ \E b \in BOOLEAN : SetResetOnLeave(b)
    \/ \E y \in PointerYs, laidOut \in BOOLEAN : handleViewportMouseMove(y, laidOut)
    \/ handleViewportMouseLeave
    \/ \E file \in ImportDocs, m \in SyntaxMessages : handleSettingsFileChange(file, m)
    \/ Unmount

SpecRate == Init /\ [][NextRate]_vars

(***************************************************************************)
(* Properties                                                              *)
(***************************************************************************)
\* What a step did, read from the log: the entry it appended, if any.
Logged(event) == logs' # logs /\ logs' # <<>> /\ logs'[Len(logs')].event = event
AdvanceLogged == Logged("tick") \/ Logged("manual")
LastLogged == logs[Len(logs)]

\* The scheduler is stopped: autoplay is off, or Home is torn down.
Stopped == ~mounted \/ ~spec.motion.autoplay

\* C1: after stop() (setAutoplay(false)) or the teardown of the component no
\* step timer is pending, and as long as playback is stopped no step logs a
\* 'tick' or moves the index the timer advances from, other than a manual
\* advance, a Reset or an edit that re-wraps it.
C1_StopCancelsTimer ==
    /\ [](Stopped => stepTimers = {})
    /\ [][Stopped =>
            /\ ~Logged("tick")
            /\ (rsvpIndexRef' # rsvpIndexRef =>
                    \/ Logged("manual") \/ Logged("stop")
                    \/ text' # text \/ viewportStep' # viewportStep
                    \/ spec'.mode # spec.mode)]_vars

\* C1 witness: playback was stopped after a tick of the timer, and no timer
\* is left.
C1_Witness ==
    /\ mounted /\ ~spec.motion.autoplay /\ spec.mode = "rsvp" /\ Len(rsvpTokens) > 0
    /\ Len(logs) >= 2
    /\ logs[Len(logs) - 1].event = "tick" /\ logs[Len(logs)].event = "stop"
    /\ stepTimers = {}

\* C2: at most one step timer is pending, and the pending one is the timer of
\* the current effect run: it is not cancelled and its closure is that of the
\* current render, so a timer that fires is never a stale one.
C2_OneLiveTimer ==
    /\ Cardinality(stepTimers) <= 1
    /\ \A t \in stepTimers :
          mounted /\ ~t.cancelled /\ t.closure = RenderClosure

\* C2 witness: the timer had re-armed itself after a tick and was then
\* restarted by a change of the configuration or the text.
C2_Witness ==
    /\ logs # <<>> /\ LastLogged.event = "tick"
    /\ \E t \in stepTimers : t.delayMs = FIRST_STEP_MS
    /\ Cardinality(stepTimers) = 1

\* The indices of the current token list (0 alone when it is empty).
IndexRange == IF Len(rsvpTokens) > 0 THEN 0..(Len(rsvpTokens) - 1) ELSE {0}
WrappedIndex == IF Len(rsvpTokens) > 0 THEN rsvpIndex % Len(rsvpTokens) ELSE 0

\* C3: the index that is displayed (safeRsvpIndex) and the index advanced from
\* (rsvpIndexRef) are the stored index wrapped modulo the current token count,
\* hence in [0, tokenCount) (0 for an empty list), and so is every index logged.
C3_IndexInRange ==
    /\ [](mounted =>
            /\ safeRsvpIndex \in IndexRange
            /\ rsvpIndexRef \in IndexRange
            /\ rsvpIndexRef = WrappedIndex)
    /\ [][logs' # logs /\ mounted' => logs'[Len(logs')].index \in IndexRange']_vars

\* C3 witness: the stored index is beyond the end of a token list that shrank,
\* and the index in use is wrapped.
C3_Witness ==
    /\ mounted /\ Len(rsvpTokens) > 0 /\ rsvpIndex >= Len(rsvpTokens)
    /\ rsvpIndexRef = rsvpIndex % Len(rsvpTokens)

\* A write of the speed or of the punctuation pause, and of nothing else.
PacingWrite ==
    /\ mounted /\ mounted'
    /\ text' = text /\ viewportStep' = viewportStep /\ advanceStep' = advanceStep
    /\ spec' # spec
    /\ [spec' EXCEPT !.motion.speed = spec.motion.speed,
                     !.motion.pauseAtPunctuation = spec.motion.pauseAtPunctuation] = spec

\* C4: a write of the speed or of the pause settings while a step timer is
\* pending leaves that timer as it is: still pending, with the delay it was
\* armed with.
C4_PendingTimerUnaltered ==
    [][PacingWrite =>
          \A t \in stepTimers :
              \E u \in stepTimers' : u.delayMs = t.delayMs /\ ~u.cancelled]_vars

\* C5: the step timer and the frame loop are never active together: a timer
\* is pending in rsvp mode only, a renderer (and its frame callback) exists in
\* continuous mode only, no tick is logged in continuous mode and offsetPx
\* changes between continuous states only.
C5_EnginesExclusive ==
    /\ [](/\ stepTimers # {} => mounted /\ spec.mode = "rsvp"
          /\ renderer # NULL => mounted /\ spec.mode = "continuous"
          /\ ~(stepTimers # {} /\ renderer # NULL /\ renderer.rafRef))
    /\ [][/\ spec.mode = "continuous" => ~Logged("tick")
          /\ (renderer # NULL /\ renderer' # NULL
              /\ renderer'.offsetPx # renderer.offsetPx)
                => spec.mode = "continuous" /\ spec'.mode = "continuous"]_vars

\* C5 witness: the frame loop is scrolling in a run whose step timer ticked
\* before, and no timer is left.
C5_Witness ==
    /\ renderer # NULL /\ renderer.rafRef /\ renderer.offsetPx > 0
    /\ stepTimers = {}
    /\ \E i \in 1..Len(logs) : logs[i].event = "tick"

\* Manual advance is on offer: Idle, rsvp mode, a non-empty token list.
ManualAllowed ==
    mounted /\ spec.mode = "rsvp" /\ ~spec.motion.autoplay /\ Len(rsvpTokens) > 0

\* C6: a 'manual' entry is logged only by a step from a state with autoplay
\* off, mode rsvp and tokens; a click or a Space key in any other state
\* changes neither the index nor the log.
C6_ManualAdvanceGuard ==
    [][/\ Logged("manual") => ManualAllowed
       /\ ((ViewportClick \/ SpaceKey(FALSE) \/ SpaceKey(TRUE)) /\ ~ManualAllowed)
             => UNCHANGED <<rsvpIndex, rsvpIndexRef, logs>>]_vars

\* C6 witness: a manual advance moved the index off 0.
C6_Witness ==
    /\ ManualAllowed /\ logs # <<>>
    /\ LastLogged.event = "manual" /\ LastLogged.index = rsvpIndex /\ rsvpIndex > 0

\* C7: every advance, by the timer or by hand, sets the index to
\* (index + s) mod tokenCount, s being advanceStep clamped to [1, windowSize],
\* and logs the index it set.
C7_AdvanceByEffectiveStep ==
    [][(AdvanceLogged /\ mounted) =>
          LET n == Len(rsvpTokens)
              w == getViewportTokenCount(viewportStep)
              s == IF advanceStep < 1 THEN 1
                   ELSE IF advanceStep > w THEN w ELSE advanceStep
          IN  /\ n > 0 /\ s \in 1..w
              /\ rsvpIndex' = (WrappedIndex + s) % n
              /\ rsvpIndexRef' = rsvpIndex'
              /\ logs'[Len(logs')].index = rsvpIndex']_vars

\* C7 witness: advanceStep is 3, the window shrank to 2 letters, and the one
\* tick there was went from 0 to 2.
C7_Witness ==
    /\ mounted /\ viewportStep = "letter-2" /\ advanceStep = 3 /\ text = TextTwo
    /\ Len(logs) = 1 /\ logs[1].event = "tick" /\ logs[1].index = 2
    /\ rsvpIndex = 2

\* C8: with an empty token list no step timer is pending, the window text is
\* the empty string and the index reads 0; no advance is logged, and a click
\* or a Space key changes neither the index nor the log.
C8_EmptyTokens ==
    /\ []((mounted /\ Len(rsvpTokens) = 0) =>
            stepTimers = {} /\ currentRsvpToken = <<>> /\ safeRsvpIndex = 0)
    /\ [][(mounted /\ Len(rsvpTokens) = 0) =>
            /\ ~AdvanceLogged
            /\ (ViewportClick \/ SpaceKey(FALSE)) => UNCHANGED <<rsvpIndex, rsvpIndexRef, logs>>]_vars

\* C8 witness: the token list became empty while the timer was running.
C8_Witness ==
    /\ mounted /\ Len(rsvpTokens) = 0 /\ spec.motion.autoplay /\ spec.mode = "rsvp"
    /\ logs # <<>> /\ LastLogged.event = "tick" /\ LastLogged.index > 0
    /\ stepTimers = {}

\* An edit of the text or of the tokenization parameters.
TokenizationEdit ==
    /\ mounted /\ mounted'
    /\ text' # text \/ spec'.tokenization # spec.tokenization

\* C9 as stated: an edit of the text or of the tokenization parameters resets
\* the playback index to 0.
C9_IndexResetOnEdit ==
    [][TokenizationEdit => safeRsvpIndex' = 0 /\ rsvpIndexRef' = 0]_vars

\* C9 amended: an edit of the text or of the tokenization parameters keeps the
\* stored index, and the playback index becomes the stored index modulo the
\* new token count (0 for an empty list); the stored index changes by an
\* advance only, or to 0 by Reset.
C9_IndexKeptOnEdit ==
    [][/\ TokenizationEdit =>
            /\ rsvpIndex' = rsvpIndex
            /\ rsvpIndexRef' = WrappedIndex'
            /\ safeRsvpIndex' = WrappedIndex'
       /\ (mounted' /\ rsvpIndex' # rsvpIndex) =>
            AdvanceLogged \/ (Logged("stop") /\ rsvpIndex' = 0)]_vars

\* C9 witness: the index an advance reached was kept by an edit that shrank
\* the token list, and the playback index is its remainder, not 0.
C9_Witness ==
    /\ mounted /\ Len(rsvpTokens) > 0 /\ rsvpIndex >= Len(rsvpTokens)
    /\ logs # <<>> /\ LastLogged.index = rsvpIndex
    /\ rsvpIndexRef = rsvpIndex % Len(rsvpTokens) /\ rsvpIndexRef # 0

\* A write of the configuration that leaves the text, the tokenization and
\* the mode alone: font size, speed, direction, autoplay, punctuation pause.
PresentationWrite ==
    /\ mounted /\ mounted'
    /\ text' = text /\ viewportStep' = viewportStep
    /\ spec' # spec
    /\ spec'.tokenization = spec.tokenization /\ spec'.mode = spec.mode

\* C10: a write of the configuration that changes neither the text nor the
\* tokenization carries the position forward: the index and offsetPx are what
\* they were.
C10_PositionCarried ==
    [][PresentationWrite =>
          /\ rsvpIndex' = rsvpIndex /\ rsvpIndexRef' = rsvpIndexRef
          /\ renderer # NULL =>
                renderer' # NULL /\ renderer'.offsetPx = renderer.offsetPx]_vars

\* The cycle length as the host measures it now, and offsets in the unit of
\* offsetPx.
MeasuredCycle == MeasureCycleLength(spec, continuousTokens) * 100000
Running == spec.motion.autoplay /\ spec.mode = "continuous"

\* C11: 0 <= offsetPx <= cycleLength in every state that has a continuous
\* renderer, cycleLength being the value measured last.
C11_OffsetWithinCycle ==
    renderer # NULL =>
        /\ 0 <= renderer.offsetPx
        /\ renderer.offsetPx <= renderer.cycleLengthRef * 100000

\* C12: a frame sets offsetPx to 0 when offsetPx + pxPerSecond * dt exceeds
\* the cycle length and to that sum otherwise, dt being 0 for the first frame
\* of a loop; after a frame offsetPx is within [0, cycleLength].
C12_WrapToZero ==
    [][\A gap \in FrameGaps :
          AnimationFrame(gap) =>
              LET dt == IF renderer.lastTsRef = NULL THEN 0 ELSE gap
                  sum == renderer.offsetPx + speedToPxPerSecond(spec) * dt
              IN  /\ renderer'.offsetPx = IF sum > MeasuredCycle THEN 0 ELSE sum
                  /\ 0 <= renderer'.offsetPx
                  /\ renderer'.offsetPx <= MeasuredCycle]_vars

\* C12 witness: the loop has run up to an offset from which the next frame
\* exceeds the cycle length.
C12_Witness ==
    /\ renderer # NULL /\ renderer.frames = 1 /\ renderer.lastTsRef # NULL
    /\ renderer.offsetPx > 0
    /\ \E gap \in FrameGaps :
          renderer.offsetPx + speedToPxPerSecond(spec) * gap > MeasuredCycle

LoopStart ==
    /\ renderer' # NULL
    /\ renderer = NULL \/ RendererKey' # RendererKey \/ FrameDeps' # FrameDeps

PointerSample(clientY, laidOut) ==
    handleViewportMouseMove(clientY, laidOut) /\ spec.motion.rateControl.enabled

\* C15 as stated: the first pointer sample of a session captures the speed of
\* that moment, and with resetOnLeave the pointer leaving sets the speed to
\* exactly the captured one.
C15_LeaveRestoresBase ==
    [][/\ \A y \in PointerYs, laidOut \in BOOLEAN :
            (PointerSample(y, laidOut) /\ baseSpeedBeforeMouseRef = NULL)
               => baseSpeedBeforeMouseRef' = BaseSpeed(spec.motion.speed.value)
       /\ (handleViewportMouseLeave /\ spec.motion.rateControl.resetOnLeave
           /\ baseSpeedBeforeMouseRef # NULL)
             => spec'.motion.speed.value = baseSpeedBeforeMouseRef.value]_vars

\* C16 as stated: a pointer sample at p sets the speed to
\* round(lerp(minCps, maxCps, 1 - p)) of the configuration's
\* rateControl.minCps and maxCps, a value in [minCps, maxCps].
C16_PointerMapsIntoConfiguredRange ==
    [][\A y \in PointerYs :
          PointerSample(y, TRUE) =>
              LET minCps == spec.motion.rateControl.minCps
                  maxCps == spec.motion.rateControl.maxCps
                  p == clamp(y, 0, 100)
              IN  /\ spec'.motion.speed.value =
                        RoundDiv(minCps * 100 + (100 - p) * (maxCps - minCps), 100)
                  /\ spec'.motion.speed.value \in minCps..maxCps]_vars

\* C17: the pointer leaving clears the base speed whatever resetOnLeave is;
\* with resetOnLeave off it leaves the configuration as it is, and the first
\* sample after it captures the speed of that moment as the new base.
C17_LeaveClearsBase ==
    [][/\ handleViewportMouseLeave =>
            /\ baseSpeedBeforeMouseRef' = NULL
            /\ ~spec.motion.rateControl.resetOnLeave => spec' = spec
       /\ \A y \in PointerYs, laidOut \in BOOLEAN :
            (PointerSample(y, laidOut) /\ baseSpeedBeforeMouseRef = NULL)
               => baseSpeedBeforeMouseRef' = BaseSpeed(spec.motion.speed.value)]_vars

\* C17 witness: with resetOnLeave off, the base is a speed that only the
\* pointer sets: a session began at the speed an earlier one left behind.
C17_Witness ==
    /\ mounted /\ spec.motion.rateControl.enabled
    /\ ~spec.motion.rateControl.resetOnLeave
    /\ baseSpeedBeforeMouseRef # NULL
    /\ baseSpeedBeforeMouseRef.value = PointerCps(50)

\* C18: while rate control is disabled the base speed is null; disabling it
\* leaves the speed as it is, a pointer leave that follows restores nothing
\* and pointer samples change neither the speed nor the base.
C18_DisableClearsBase ==
    /\ []((mounted /\ ~spec.motion.rateControl.enabled) => baseSpeedBeforeMouseRef = NULL)
    /\ [][/\ SetRateControlEnabled(FALSE) =>
               /\ spec'.motion.speed = spec.motion.speed
               /\ baseSpeedBeforeMouseRef' = NULL
          /\ (~spec.motion.rateControl.enabled /\ handleViewportMouseLeave)
               => UNCHANGED <<spec, baseSpeedBeforeMouseRef>>
          /\ \A y \in PointerYs, laidOut \in BOOLEAN :
               (~spec.motion.rateControl.enabled /\ handleViewportMouseMove(y, laidOut))
                  => UNCHANGED <<spec, baseSpeedBeforeMouseRef>>]_vars

\* C18 witness: rate control was disabled in the middle of a session that
\* began at the imported speed: the speed is the pointer's, the base is gone.
C18_Witness ==
    /\ mounted /\ ~spec.motion.rateControl.enabled
    /\ spec.motion.rateControl.resetOnLeave
    /\ spec.motion.speed.value = PointerCps(50)
    /\ baseSpeedBeforeMouseRef = NULL

AdvanceRequest == StepTimerFire \/ ViewportClick \/ SpaceKey(FALSE)

\* C20: a step logs 'tick' only when the timer fires and 'manual' only on a
\* click or a Space key; the step appends that one entry, whose index is the
\* index it set; and a request that changes the index logs it.
C20_AdvanceLoggedOnce ==
    [][/\ AdvanceLogged =>
             /\ logs' = Append(logs, [event |-> logs'[Len(logs')].event,
                                      index |-> rsvpIndexRef'])
             /\ mounted => rsvpIndex' = rsvpIndexRef'
             /\ Logged("tick") => StepTimerFire
             /\ Logged("manual") => ViewportClick \/ SpaceKey(FALSE)
       /\ (AdvanceRequest /\ rsvpIndexRef' # rsvpIndexRef) => AdvanceLogged]_vars

\* C20 witness: the log holds a tick and, last, the manual advance that set
\* the current index.
C20_Witness ==
    /\ mounted /\ logs # <<>>
    /\ \E i \in 1..Len(logs) : logs[i].event = "tick" /\ logs[i].index # rsvpIndex
    /\ LastLogged.event = "manual" /\ LastLogged.index = rsvpIndex

(***************************************************************************)
(* The event log of a long session.                                        *)
(***************************************************************************)
\* The serial number the next logged event gets: logged events are numbered
\* in the order of their appendLog calls, the number carried in the index
\* field of the entry.
NextSerial == IF logs = <<>> THEN 1 ELSE logs[Len(logs)].index + 1

\* One more logged event of the session: appendLog on the log as it is.
AppendLogEntry ==
    /\ NextSerial <= MaxAppends
    /\ logs' = appendLog(logs, LogEntry("tick", NextSerial))
    /\ UNCHANGED <<mounted, spec, viewportStep, advanceStep, rsvpIndex, text,
                   rsvpIndexRef, baseSpeedBeforeMouseRef, fetchPending,
                   settingsModalError, windowCall, stepTimers, renderer>>

NextLog == AppendLogEntry

SpecLog == Init /\ [][NextLog]_vars

\* The load of the default text and what can happen before it settles.
NextLoad ==
    \/ \E t \in {TextEmpty, TextTwo, TextComma} : SetText(t)
    \/ \E ok \in BOOLEAN, t \in {TextTwo, TextLetters} : DefaultTextLoaded(ok, t)
    \/ \E step \in {"word-1", "letter-2"} : applyViewportStep(step)
    \/ \E a \in BOOLEAN : setAutoplay(a)
    \/ StepTimerFire
    \/ Unmount

SpecLoad == Init /\ [][NextLoad]_vars

\* Autoplay with the text and the settings held fixed: the text and the
\* settings are chosen before the first advance, and from then on only the
\* step timer acts, for as long as the session lasts. A timeout that is armed
\* fires: the fairness of window.setTimeout.
LiveTexts == {TextTwo, TextWords}
BeforeFirstAdvance == logs = <<>>
AutoplayTick == StepTimerTick(TRUE)

NextAutoplay ==
    \/ BeforeFirstAdvance /\ \E t \in LiveTexts : SetText(t)
    \/ BeforeFirstAdvance
          /\ \E step \in {"word-1", "word-2", "word-3"} : applyViewportStep(step)
    \/ BeforeFirstAdvance /\ \E v \in AdvanceSteps : SetAdvanceStep(v)
    \/ AutoplayTick

SpecAutoplay == Init /\ [][NextAutoplay]_vars /\ WF_vars(AutoplayTick)

\* C21: the log holds at most LOG_LIMIT entries, and they are the most
\* recently appended ones in the order of their appends: after n appends it
\* holds the entries numbered n - Len + 1 .. n, with Len = min(n, LOG_LIMIT);
\* an append to a full log drops its oldest entry and no other. An append
\* changes the log and nothing else: no operation of the model takes a
\* decision from the entries of the log.
C21_LogHoldsMostRecent ==
    /\ [](/\ Len(logs) <= LOG_LIMIT
          /\ logs # <<>> =>
                LET n == logs[Len(logs)].index
                IN  /\ Len(logs) = Min(n, LOG_LIMIT)
                    /\ \A i \in 1..Len(logs) :
                          logs[i] = LogEntry("tick", n - Len(logs) + i))
    /\ [][/\ logs' = IF Len(logs) < LOG_LIMIT
                     THEN Append(logs, LogEntry("tick", NextSerial))
                     ELSE Append(Tail(logs), LogEntry("tick", NextSerial))
          /\ UNCHANGED <<spec, rsvpIndex, rsvpIndexRef, stepTimers, renderer>>]_vars

\* C21 witness: a full log that has lost its three oldest entries.
C21_Witness ==
    /\ Len(logs) = LOG_LIMIT
    /\ logs[1].index = 4 /\ logs[LOG_LIMIT].index = LOG_LIMIT + 3

(***************************************************************************)
(* The delay of the step timer.                                            *)
(***************************************************************************)
\* The characters an advance of s tokens from index start crosses: the length
\* of the s tokens from start on, circularly, joined with the separator of
\* the unit; at least 1.
CrossedChars(tokens, start, s, unit) ==
    LET moved == [k \in 1..s |-> tokens[((start + k - 1) % Len(tokens)) + 1]]
    IN  Max(1, Len(Join(moved, Joiner(unit))))

\* The live timer a tick armed.
ArmedDelays == {t.delayMs : t \in {u \in stepTimers' : ~u.cancelled}}

\* C22: the delay a tick arms is max(20, round(advancedCharCount * 1000 /
\* max(1, speed))) plus the punctuation pause when the pause is enabled and
\* the token landed on ends with pause punctuation, advancedCharCount being
\* the at least 1 characters of the effectiveAdvanceStep tokens joined from
\* the index before the advance on; the delay is at least 20 ms.
C22_StepDelay ==
    [][Logged("tick") =>
          LET count == CrossedChars(rsvpTokens, rsvpIndexRef, effectiveAdvanceStep,
                                    spec.tokenization.unit)
              base == Max(20, RoundDiv(count * 1000, Max(1, spec.motion.speed.value)))
              pause == IF spec.motion.pauseAtPunctuation.enabled
                          /\ endsWithPausePunctuation(currentRsvpToken')
                       THEN spec.motion.pauseAtPunctuation.delayMs ELSE 0
          IN  /\ count >= 1
              /\ ArmedDelays = {base + pause}
              /\ \A d \in ArmedDelays : d >= 20]_vars

\* C22 witness: a tick at 80 characters per second crossed the one character
\* of "b" (12.5 ms, floored to 20) and landed on "a.", where the pause is
\* added.
C22_Witness ==
    /\ mounted /\ logs # <<>> /\ LastLogged.event = "tick"
    /\ spec.motion.speed.value = 80 /\ spec.motion.pauseAtPunctuation.enabled
    /\ \E t \in stepTimers :
          /\ ~t.cancelled
          /\ t.delayMs = MIN_STEP_MS + spec.motion.pauseAtPunctuation.delayMs

(***************************************************************************)
(* The pause at punctuation.                                               *)
(***************************************************************************)
\* The delay of a tick before any pause.
TickBase ==
    Max(20, RoundDiv(CrossedChars(rsvpTokens, rsvpIndexRef, effectiveAdvanceStep,
                                  spec.tokenization.unit) * 1000,
                     Max(1, spec.motion.speed.value)))

\* The token ends with one of marks, or with one of marks and then one closing
\* quote or bracket.
EndsWithMark(token, marks) ==
    LET s == Trim(token)
        n == Len(s)
    IN  \/ n >= 1 /\ s[n] \in marks
        \/ n >= 2 /\ s[n] \in {"\"", "'", ")", "]"} /\ s[n - 1] \in marks

\* C23 as stated: with the pause enabled, a tick adds delayMs exactly when the
\* token landed on ends with . ! or ?, optionally followed by one closing
\* quote or bracket.
C23_PauseAtSentenceEnd ==
    [][(Logged("tick") /\ spec.motion.pauseAtPunctuation.enabled) =>
          ArmedDelays =
              {TickBase + (IF EndsWithMark(currentRsvpToken', {".", "!", "?"})
                           THEN spec.motion.pauseAtPunctuation.delayMs ELSE 0)}]_vars

\* C23, amended: with the pause enabled, a tick adds delayMs exactly when the
\* token landed on ends with one of . , ! ? ; : optionally followed by one
\* closing quote or bracket; with the pause disabled it adds nothing.
C23_PauseAtPunctuation ==
    [][Logged("tick") =>
          ArmedDelays =
              {TickBase + (IF /\ spec.motion.pauseAtPunctuation.enabled
                              /\ EndsWithMark(currentRsvpToken',
                                              {".", ",", "!", "?", ";", ":"})
                           THEN spec.motion.pauseAtPunctuation.delayMs ELSE 0)}]_vars

\* C23 witness: at 80 characters per second a tick crossed the three
\* characters of "b.)" (38 ms) and landed on "a,", where the pause is added.
C23_Witness ==
    /\ mounted /\ logs # <<>> /\ LastLogged.event = "tick"
    /\ text = TextComma /\ currentRsvpToken = <<"a", ",">>
    /\ effectiveAdvanceStep = 1
    /\ spec.motion.speed.value = 80 /\ spec.motion.pauseAtPunctuation.enabled
    /\ \E t \in stepTimers :
          ~t.cancelled /\ t.delayMs = 38 + spec.motion.pauseAtPunctuation.delayMs

(***************************************************************************)
(* The settings dialog.                                                    *)
(***************************************************************************)
\* C24 as stated: the scroll speed of the continuous renderer, in 1/100 px
\* per second, is the configured speed itself when its unit is pxps, and
\* otherwise the speed in characters per second times approxCharPx =
\* fontSizePx * 0.62 + letterSpacingPx, floored at 10 px per second.
C24_ScrollSpeedByUnit ==
    renderer # NULL =>
        renderer.pxPerSecond =
            IF spec.motion.speed.unit = "pxps"
            THEN 100 * spec.motion.speed.value
            ELSE Max(1000, Max(1, spec.motion.speed.value)
                             * Max(100, spec.typography.fontSizePx * 62
                                        + spec.typography.letterSpacingPx * 100))

\* The file is not JSON, is not an object, or lacks one of its tokenization,
\* motion and typography sections.
Malformed(file) ==
    \/ ~file.parses
    \/ ~file.isObject
    \/ \E x \in {"tokenization", "motion", "typography"} : x \notin file.sections

\* C25: the import of a file that is not JSON, not an object, or without one
\* of its three sections ends with a message in settingsModalError, thrown
\* errors being caught, and leaves the ConditionSpec, the viewport step and
\* the state of the playback as they were.
C25_MalformedImportRejected ==
    [][\A file \in SettingsFiles, m \in SyntaxMessages :
          (Malformed(file) /\ handleSettingsFileChange(file, m)) =>
              /\ settingsModalError' # ""
              /\ UNCHANGED <<spec, viewportStep, advanceStep, rsvpIndex, rsvpIndexRef,
                             text, logs, baseSpeedBeforeMouseRef, stepTimers,
                             renderer>>]_vars

\* C25 witness: after the import of the px-per-second document, an object
\* without one of its sections was picked: the message is shown and the
\* imported configuration is still there.
C25_Witness ==
    /\ mounted /\ settingsModalError = "Invalid settings JSON structure."
    /\ spec.motion.speed = [unit |-> "pxps", value |-> 100]
    /\ spec.mode = "continuous" /\ renderer # NULL

\* C26: in every configuration, 1 <= minCps <= maxCps: in the defaults, after
\* every operation of the controls, and after every import, whatever the
\* document holds for the two (nothing, zero, a negative number, a string, a
\* minimum above the maximum).
C26_RateRangeOrdered ==
    /\ 1 <= spec.motion.rateControl.minCps
    /\ spec.motion.rateControl.minCps <= spec.motion.rateControl.maxCps

\* C26 witness: the import of the document with minCps -5 and maxCps "fast":
\* the range is 1 .. 60.
C26_Witness ==
    /\ mounted /\ spec.tokenization = [unit |-> "char", chunkSize |-> 2]
    /\ spec.motion.rateControl.minCps = 1 /\ spec.motion.rateControl.maxCps = 60

\* C27 as stated: the import of a document whose minCps is above its maxCps
\* gives the two swapped.
C27_ReversedRangeSwapped ==
    [][\A file \in AcceptedFiles, m \in SyntaxMessages :
          LET rc == file.body.motion.rateControl
          IN  (/\ rc.minCps.t = "number" /\ rc.maxCps.t = "number"
               /\ rc.maxCps.v >= 1 /\ rc.minCps.v > rc.maxCps.v
               /\ handleSettingsFileChange(file, m)) =>
                  /\ spec'.motion.rateControl.minCps = rc.maxCps.v
                  /\ spec'.motion.rateControl.maxCps = rc.minCps.v]_vars

\* C28 as stated: an imported speed of w words per minute becomes
\* round(w / 12) characters per second, and a speed in another unit keeps its
\* unit and its value.
C28_SpeedKeptOrDivided ==
    [][\A file \in AcceptedFiles, m \in SyntaxMessages :
          LET sp == file.body.motion.speed
          IN  (/\ sp.unit.t = "string" /\ sp.value.t = "number"
               /\ handleSettingsFileChange(file, m)) =>
                  spec'.motion.speed =
                      IF sp.unit.s = "wpm"
                      THEN [unit |-> "cps", value |-> RoundDiv(sp.value.v, 12)]
                      ELSE [unit |-> sp.unit.s, value |-> sp.value.v]]_vars

\* C28, amended: an imported speed of w words per minute becomes
\* max(1, round(w / 12)) characters per second, a w that is missing or not a
\* number counting as 0; a speed in another unit keeps its unit (cps when the
\* document has none) and its value v when v >= 1, and gets the value 1 when
\* v < 1 and the default 24 when v is 0, missing or not a number.
C28_SpeedMigration ==
    [][\A file \in AcceptedFiles, m \in SyntaxMessages :
          handleSettingsFileChange(file, m) =>
              LET sp == file.body.motion.speed
                  v == IF sp.value.t = "number" THEN sp.value.v ELSE 0
              IN  spec'.motion.speed =
                      IF sp.unit.t = "string" /\ sp.unit.s = "wpm"
                      THEN [unit |-> "cps", value |-> Max(1, RoundDiv(v, 12))]
                      ELSE [unit |-> IF sp.unit.t = "string" THEN sp.unit.s ELSE "cps",
                            value |-> IF v = 0 THEN 24 ELSE Max(1, v)]]_vars

\* C28 witness: the import of the document with 120 words per minute: 10
\* characters per second.
C28_Witness ==
    /\ mounted /\ settingsModalError = ""
    /\ spec.motion.speed = [unit |-> "cps", value |-> 10]
    /\ spec.motion.rateControl.minCps = 8 /\ spec.motion.rateControl.maxCps = 60

\* C29 as stated: the export of the ConditionSpec, imported again, gives an
\* equal ConditionSpec.
C29_ExportImportIdentity ==
    [][\A m \in SyntaxMessages : ImportExported(m) => spec' = spec]_vars

(***************************************************************************)
(* The tokenizer.                                                          *)
(***************************************************************************)
\* C30: with base the tokens of the text for the unit and chunk size 1, the
\* tokens for chunk size n >= 1 are ceil(Len(base) / n) groups, group i being
\* the base tokens i * n .. min((i + 1) * n, Len(base)) - 1 joined with the
\* separator of the unit, so that the last group may be shorter and is not
\* padded; an empty or blank text gives no tokens for the unit word.
C30_TokensGrouped ==
    LET unit == spec.tokenization.unit
        n == spec.tokenization.chunkSize
        base == tokenizeText(text, unit, 1)
        out == continuousTokens
    IN  /\ n >= 1
        /\ Len(out) = (Len(base) + n - 1) \div n
        /\ \A i \in 0..(Len(out) - 1) :
              out[i + 1] = Join(SubSeq(base, i * n + 1, Min((i + 1) * n, Len(base))),
                                IF unit = "char" THEN <<>> ELSE <<" ">>)
        /\ (unit = "word" /\ \A k \in 1..Len(text) : text[k] = " ") => out = <<>>

\* C30 witness: "abcde" in groups of two characters is "ab", "cd", "e".
C30_Witness ==
    /\ mounted /\ text = TextLetters
    /\ spec.tokenization = [unit |-> "char", chunkSize |-> 2]
    /\ continuousTokens = <<<<"a", "b">>, <<"c", "d">>, <<"e">>>>

\* The positions of t that whitespace normalization keeps: the characters
\* that are not whitespace, and the first character of a whitespace run that
\* has such a character before it and after it.
KeptPositions(t) ==
    {i \in 1..Len(t) :
        \/ ~IsSpace(t[i])
        \/ /\ i > 1 /\ ~IsSpace(t[i - 1])
           /\ \E j \in (i + 1)..Len(t) : ~IsSpace(t[j])}

\* t with its leading and trailing whitespace removed and every whitespace
\* run replaced by one space.
WhitespaceNormalized(t) ==
    LET kept == KeptPositions(t)
        nth(k) == CHOOSE i \in kept : Cardinality({j \in kept : j <= i}) = k
    IN  [k \in 1..Cardinality(kept) |->
            IF IsSpace(t[nth(k)]) THEN " " ELSE t[nth(k)]]

\* C31: for the unit word and chunk size 1, the tokens joined with one space
\* are the whitespace-normalized text, and no token is empty or holds a
\* whitespace character.
C31_WordRoundTrip ==
    (spec.tokenization = [unit |-> "word", chunkSize |-> 1]) =>
        /\ Join(continuousTokens, <<" ">>) = WhitespaceNormalized(text)
        /\ \A i \in 1..Len(continuousTokens) :
              /\ continuousTokens[i] # <<>>
              /\ \A k \in 1..Len(continuousTokens[i]) :
                    continuousTokens[i][k] \notin {" ", "\n"}

\* C31 witness: " a b\n c. d " gives the four tokens of "a b c. d".
C31_Witness ==
    /\ mounted /\ text = TextWords
    /\ spec.tokenization = [unit |-> "word", chunkSize |-> 1]
    /\ continuousTokens = <<<<"a">>, <<"b">>, <<"c", ".">>, <<"d">>>>

\* C32 as stated: for the unit sentence and chunk size 1, the tokens joined
\* with one space are the whitespace-collapsed text: every character of the
\* text that is not whitespace is in the tokens once and in order.
C32_SentenceRoundTrip ==
    (spec.tokenization = [unit |-> "sentence", chunkSize |-> 1]) =>
        Join(continuousTokens, <<" ">>) = WhitespaceNormalized(text)

(***************************************************************************)
(* The display windower.                                                   *)
(***************************************************************************)
\* C33: for a token list that is not empty, every start index, negative ones
\* included, and every window size w >= 1, the window is the join ("" for
\* char, " " otherwise) of tokens[(floorMod(start, len) + k) mod len] for
\* k = 0 .. w - 1; for w = 1 it is tokens[start mod len]; for the empty list
\* it is the empty string.
C33_WindowAt ==
    windowCall.returned =>
        LET tokens == windowCall.tokens
            len == Len(tokens)
            start == windowCall.startIndex
            w == windowCall.viewportTokenCount
            picked == [k \in 0..(w - 1) |-> tokens[(((start % len) + k) % len) + 1]]
            joined == [k \in 0..(w - 1) |->
                          IF k = 0 \/ windowCall.unit = "char" THEN picked[k]
                          ELSE <<" ">> \o picked[k]]
            Concat[k \in 0..w] ==
                IF k = 0 THEN <<>> ELSE Concat[k - 1] \o joined[k - 1]
        IN  IF len = 0 THEN windowCall.result = <<>>
            ELSE /\ windowCall.result = Concat[w]
                 /\ w = 1 => windowCall.result = tokens[(start % len) + 1]

\* C33 witness: the window of two words at the last index of a list of three,
\* reached from a negative start index, has the first token as its second.
C33_Witness ==
    /\ windowCall.returned
    /\ windowCall.tokens = <<<<"a">>, <<"b", "c">>, <<"d">>>>
    /\ windowCall.startIndex = -1 /\ windowCall.viewportTokenCount = 2
    /\ windowCall.unit = "word"
    /\ windowCall.result = <<"d", " ", "a">>

(***************************************************************************)
(* The unit of the speed.                                                  *)
(***************************************************************************)
\* C34 as stated: while rate control is enabled, after every pointer sample
\* over a viewport that is laid out the unit of the speed is cps, whatever
\* the unit was and whatever speed the sample maps to.
C34_SampleForcesCps ==
    [][\A y \in PointerYs :
          PointerSample(y, TRUE) => spec'.motion.speed.unit = "cps"]_vars

(***************************************************************************)
(* The spacing of the advances of the timer.                               *)
(***************************************************************************)
\* C35 as stated: an advance of the timer comes no earlier than 20 ms after
\* the advance before it and after the start or restart of the timer loop:
\* the timeout whose firing makes the advance was armed with a delay of at
\* least MIN_STEP_MS.
C35_AdvancesSpaced ==
    [][Logged("tick") =>
          \A t \in stepTimers : ~t.cancelled => t.delayMs >= MIN_STEP_MS]_vars

(***************************************************************************)
(* The two engines of the page of src/unnamed/part_000.                    *)
(***************************************************************************)
\* C36 as stated: in the page of src/unnamed/part_000 the step timer and the
\* frame loop are never active together, and while the mode is rsvp, autoplay
\* is on and the progression is continuous no 'tick' is logged and the index
\* does not move.
C36_Part000EnginesExclusive ==
    /\ [](~(/\ \E t \in stepTimers : ~t.cancelled
            /\ renderer # NULL /\ renderer.frames > 0))
    /\ [][(/\ spec.mode = "rsvp" /\ spec.motion.autoplay
           /\ spec.motion.progression = "continuous"
           /\ spec' = spec)
             => (~Logged("tick") /\ rsvpIndex' = rsvpIndex)]_vars

(***************************************************************************)
(* 'start' and 'stop' entries of the log                                   *)
(***************************************************************************)
\* C37 as stated: every 'stop' entry marks a step from autoplay on to
\* autoplay off, after which no step timer is pending, and every 'start'
\* entry a step from autoplay off to autoplay on; the entry of the Reset
\* button included.
C37_StopStartMarkTransitions ==
    [][(Logged("stop") =>
            (/\ spec.motion.autoplay /\ ~spec'.motion.autoplay
             /\ \A t \in stepTimers' : t.cancelled))
       /\ (Logged("start") =>
            (~spec.motion.autoplay /\ spec'.motion.autoplay))]_vars

(***************************************************************************)
(* The load of the default text                                            *)
(***************************************************************************)
\* C38 as stated: the load of the default text never overwrites text the
\* user has entered: when the fetch settles while the text area holds text
\* (the text is empty until the user types or the load delivers), the text
\* stays what it was; a failed fetch changes nothing either.
C38_LoadKeepsUserText ==
    [][(fetchPending /\ ~fetchPending' /\ text # <<>>) => text' = text]_vars

(***************************************************************************)
(* The viewport step and the tokenization                                  *)
(***************************************************************************)
\* C39 as stated: in every reachable state the tokenization of the
\* configuration is the one the current viewport step implies, also after
\* the import of a configuration exported at the viewport step page.
C39_TokenizationMatchesViewportStep ==
    mounted => spec.tokenization = getTokenizationFromViewportStep(viewportStep)

(***************************************************************************)
(* Coverage of the text by the displayed windows                           *)
(***************************************************************************)
\* The positions (0-based) of the tokens getRsvpDisplayToken joins for the
\* current index.
DisplayedPositions ==
    IF Len(rsvpTokens) = 0 THEN {}
    ELSE {(safeRsvpIndex + k - 1) % Len(rsvpTokens) : k \in 1..Max(1, viewportTokenCount)}

\* The longest token list of the texts of the autoplay session.
MaxTokens == 4
RsvpAutoplay ==
    mounted /\ spec.mode = "rsvp" /\ spec.motion.autoplay /\ Len(rsvpTokens) > 0

\* C40: during autoplay in rsvp mode with the text and the settings held
\* fixed, and with a step timer that fires when armed, every token of the
\* sequence eventually lies inside the displayed window.
C40_EveryTokenDisplayed ==
    \A j \in 0..(MaxTokens - 1) :
        (~BeforeFirstAdvance /\ RsvpAutoplay /\ j < Len(rsvpTokens))
            ~> (j \in DisplayedPositions)

\* The window spans the wrap from the last token to the first, late in a
\* session whose step is more than one token.
C40_Witness ==
    /\ RsvpAutoplay /\ Len(logs) >= 6 /\ LastLogged.event = "tick"
    /\ effectiveAdvanceStep > 1
    /\ Len(rsvpTokens) - 1 \in DisplayedPositions /\ 0 \in DisplayedPositions
    /\ Len(rsvpTokens) > viewportTokenCount

====
